---------------------------- MODULE Spec2Model ----------------------------
(***************************************************************************)
(* A model of the structural merge of i18n-structure-generator:            *)
(* createEmptyStructure, syncStructure and setValueAtPath of utils.js      *)
(* (src/unnamed/part_000).                                                  *)
(*                                                                         *)
(* A JSON value is a record with the same five fields whatever its type:   *)
(*   type   "object", "array", "string", "number", "boolean", "null", or   *)
(*          "undefined" (an absent property, a hole of an array);          *)
(*   val    the text of a scalar, as a sequence of one-character strings;  *)
(*   keys   the own property names, in JavaScript's property order;        *)
(*   vals   the values of those properties, in the same order;             *)
(*   elems  the elements of an array.                                      *)
(* A string (a key, a path) is a sequence of one-character strings, so     *)
(* that building a path and parsing it again are computed, not assumed.    *)
(***************************************************************************)
EXTENDS Integers, Sequences, FiniteSets, TLC

VARIABLES
    source,         \* the source tree given to syncStructure
    target,         \* the target tree given to syncStructure
    pc,             \* "start", "synced", "resynced", "injected", "set",
                    \* "emptied" or "heapsynced"
    syncResult,     \* { updatedNode, changesMade } of syncStructure(S, T)
    addedNodes,     \* the collector after syncStructure(S, T, 'root', [])
    resyncResult,   \* { updatedNode, changesMade } of the second call
    resyncAdded,    \* the collector of the second call
    injected,       \* what setValueAtPath did to the merged tree
    heapBefore,     \* the heap a call on the heap started with
    heapAfter,      \* the heap that call left
    heapResult,     \* the references given to that call and what it returned
    \* translator.js
    aiClientInstance,   \* TRUE once initializeTranslator has set the client
    fragment,       \* the structure given to translateStructureInBatches or
                    \* to translateJsonFileContent
    tpc,            \* "off", "idle", "batches", "returned" or "file"
    originalStrings,    \* the strings collected from the fragment
    batchStart,     \* i of the loop over the batches
    allTranslatedStringsValidated,  \* what the batches returned so far
    responses,      \* what the service answered, request by request
    batchResults,   \* what translateBatchInternal returned, batch by batch
    translated,     \* the value the translation function returned
    reconstructed,  \* reconstructStructure has run
    threw,          \* an exception left the translation function
    \* syncOperations.js
    rpc,            \* "off", "language" (at the head of the loop over the
                    \* languages), "files" (in the loops over the files of a
                    \* language) or "done" (runSync has returned)
    sourceLang,     \* the language code of the source
    targetLangs,    \* the list of languages runSync is given
    enableTranslation,
    dirs,           \* the directory of every language below baseDir
    langIndex,      \* the place in targetLangs of the loop, from 1
    queue,          \* what is left of filesToAdd, filesToDelete and
                    \* filesToSync of the language, in the order of the loops
    langChangesCount,
    totalChangesCount,
    operations,     \* the file operations attempted so far
    compared,       \* the calls of compareDirectories so far
    failedLanguages, \* the languages whose loop body ended in its catch
    runNumber       \* 1 in the first call of runSync, 2 in the second

mergeVars == << source, target, pc, syncResult, addedNodes, resyncResult,
                resyncAdded, injected, heapBefore, heapAfter, heapResult >>

translateVars == << aiClientInstance, fragment, tpc, originalStrings,
                    batchStart, allTranslatedStringsValidated, responses,
                    batchResults, translated, reconstructed, threw >>

runVars == << rpc, sourceLang, targetLangs, enableTranslation, dirs,
             langIndex, queue, langChangesCount, totalChangesCount,
             operations, compared, failedLanguages, runNumber >>

vars == << mergeVars, translateVars, runVars >>

\* The two input trees together have at most this many nodes.
MaxNodes == 4

(***************************************************************************)
(* Strings                                                                 *)
(***************************************************************************)
Digits == << "0", "1", "2", "3", "4", "5", "6", "7", "8", "9" >>

IsDigit(c) == \E d \in 1..10 : Digits[d] = c

DigitVal(c) == (CHOOSE d \in 1..10 : Digits[d] = c) - 1

\* `${i}` of a number i >= 0
RECURSIVE ToStr(_)
ToStr(i) ==
    IF i < 10 THEN << Digits[i + 1] >>
    ELSE ToStr(i \div 10) \o << Digits[(i % 10) + 1] >>

\* the number a string of digits denotes
RECURSIVE ToNum(_)
ToNum(s) ==
    IF Len(s) = 0 THEN 0
    ELSE 10 * ToNum(SubSeq(s, 1, Len(s) - 1)) + DigitVal(s[Len(s)])

\* /^\d+$/.test(s)
AllDigits(s) == Len(s) > 0 /\ \A i \in 1..Len(s) : IsDigit(s[i])

\* A property name that JavaScript treats as an array index (an "integer
\* key"): the canonical decimal form of a number.  Names of at most 9 digits
\* are considered, which is enough for every name that occurs here.
IsArrayIndex(s) ==
    /\ AllDigits(s)
    /\ Len(s) <= 9
    /\ (Len(s) = 1 \/ s[1] # "0")

(***************************************************************************)
(* JSON values                                                             *)
(***************************************************************************)
Node(t, v, ks, vs, es) ==
    [type |-> t, val |-> v, keys |-> ks, vals |-> vs, elems |-> es]

Undefined == Node("undefined", <<>>, <<>>, <<>>, <<>>)
Null      == Node("null", <<>>, <<>>, <<>>, <<>>)
Str(s)    == Node("string", s, <<>>, <<>>, <<>>)
Num(s)    == Node("number", s, <<>>, <<>>, <<>>)
Bool(s)   == Node("boolean", s, <<>>, <<>>, <<>>)
Obj(ks, vs) == Node("object", <<>>, ks, vs, <<>>)
Arr(es)   == Node("array", <<>>, <<>>, <<>>, es)

IsContainer(n) == n.type \in {"object", "array"}

\* Object.prototype.hasOwnProperty.call(o, k)
HasOwn(o, k) == \E i \in 1..Len(o.keys) : o.keys[i] = k

KeyIndex(o, k) == CHOOSE i \in 1..Len(o.keys) : o.keys[i] = k

\* o[k] for an own property k
GetOwn(o, k) == IF HasOwn(o, k) THEN o.vals[KeyIndex(o, k)] ELSE Undefined

\* Where a new property k goes in the property order: integer keys come
\* first, in ascending numeric order, then the other keys in insertion order.
InsertPos(ks, k) ==
    IF IsArrayIndex(k)
    THEN 1 + Cardinality({ i \in 1..Len(ks) :
                             IsArrayIndex(ks[i]) /\ ToNum(ks[i]) < ToNum(k) })
    ELSE Len(ks) + 1

InsertAt(s, p, e) == SubSeq(s, 1, p - 1) \o << e >> \o SubSeq(s, p, Len(s))

RemoveAt(s, p) == SubSeq(s, 1, p - 1) \o SubSeq(s, p + 1, Len(s))

\* o[k] = v on the own properties of o
SetOwn(o, k, v) ==
    IF HasOwn(o, k)
    THEN [o EXCEPT !.vals[KeyIndex(o, k)] = v]
    ELSE LET p == InsertPos(o.keys, k)
         IN  [o EXCEPT !.keys = InsertAt(o.keys, p, k),
                       !.vals = InsertAt(o.vals, p, v)]

\* delete o[k]
DeleteOwn(o, k) ==
    IF HasOwn(o, k)
    THEN LET p == KeyIndex(o, k)
         IN  [o EXCEPT !.keys = RemoveAt(o.keys, p),
                       !.vals = RemoveAt(o.vals, p)]
    ELSE o


(***************************************************************************)
(* createEmptyStructure (utils.js)                                         *)
(***************************************************************************)
\* Mutant: numbers are blanked like strings.
RECURSIVE createEmptyStructureBlanksNumbers(_)
createEmptyStructureBlanksNumbers(value) ==
    IF value.type = "array"
    THEN Arr([i \in 1..Len(value.elems) |->
                 createEmptyStructureBlanksNumbers(value.elems[i])])
    ELSE IF value.type = "object"
    THEN Obj(value.keys,
             [i \in 1..Len(value.keys) |->
                 createEmptyStructureBlanksNumbers(value.vals[i])])
    ELSE IF value.type \in {"string", "number"}
    THEN Str(<<>>)
    ELSE value

RECURSIVE createEmptyStructure(_)
createEmptyStructure(value) ==
    IF value.type = "array"
    THEN Arr([i \in 1..Len(value.elems) |->
                 createEmptyStructure(value.elems[i])])
    ELSE IF value.type = "object"
    THEN Obj(value.keys,
             [i \in 1..Len(value.keys) |->
                 createEmptyStructure(value.vals[i])])
    ELSE IF value.type = "string"
    THEN Str(<<>>)
    ELSE value

(***************************************************************************)
(* syncStructure (utils.js)                                                *)
(*                                                                         *)
(* The collector is threaded through the calls: every call returns it with *)
(* the records it appended.  A record holds, beside the path and the       *)
(* sourceValue of the code, the steps (keys and indices) that led to the   *)
(* node: an auxiliary field the code does not have, which names the place  *)
(* the path string was built for.                                          *)
(***************************************************************************)
\* Array.isArray(n) ? 'array' : (n === null ? 'null' : typeof n)
TypeOf(node) == node.type

\* Mutant: only the source's type is looked at.
isMajorMismatchSourceOnly(sourceType, targetType) ==
    \/ sourceType = "object"
    \/ sourceType = "array"

isMajorMismatch(sourceType, targetType) ==
    \/ sourceType = "object"
    \/ sourceType = "array"
    \/ targetType = "object"
    \/ targetType = "array"

\* Mutant: the index is written one too high.
IndexPathOneBased(currentPath, i) ==
    currentPath \o << "[" >> \o ToStr(i + 1) \o << "]" >>

\* `${currentPath}[${i}]`
IndexPath(currentPath, i) == currentPath \o << "[" >> \o ToStr(i) \o << "]" >>

\* `${currentPath}.${key}`
KeyPath(currentPath, key) == currentPath \o << "." >> \o key

KeyStep(key) == [kind |-> "key", name |-> key]
IndexStep(i) == [kind |-> "index", name |-> ToStr(i)]

AddedRecord(path, steps, sourceValue) ==
    [path |-> path, sourceValue |-> sourceValue, steps |-> steps]

Max(a, b) == IF a >= b THEN a ELSE b
Min(a, b) == IF a <= b THEN a ELSE b

RECURSIVE syncStructure(_, _, _, _, _)
RECURSIVE SyncArrayLoop(_, _, _, _, _, _)
RECURSIVE SyncObjectSourceLoop(_, _, _, _, _)

\* Mutant: an element the target alone has is kept.
RECURSIVE SyncArrayLoopKeepsTail(_, _, _, _, _, _)
SyncArrayLoopKeepsTail(sourceNode, targetNode, currentPath, currentSteps, i, acc) ==
    LET sourceLength == Len(sourceNode.elems)
        targetLength == Len(targetNode.elems)
        maxLength    == Max(sourceLength, targetLength)
        elementPath  == IndexPath(currentPath, i)
        elementSteps == Append(currentSteps, IndexStep(i))
    IN
    IF i >= maxLength THEN acc
    ELSE IF i < sourceLength /\ i < targetLength
    THEN LET result == syncStructure(sourceNode.elems[i + 1],
                                     targetNode.elems[i + 1],
                                     elementPath, elementSteps, acc.added)
         IN  SyncArrayLoopKeepsTail(sourceNode, targetNode, currentPath,
                 currentSteps, i + 1,
                 [arr     |-> Append(acc.arr, result.updatedNode),
                  changes |-> acc.changes \/ result.changesMade,
                  added   |-> result.added])
    ELSE IF i < sourceLength
    THEN SyncArrayLoopKeepsTail(sourceNode, targetNode, currentPath,
             currentSteps, i + 1,
             [arr     |-> Append(acc.arr,
                              createEmptyStructure(sourceNode.elems[i + 1])),
              changes |-> TRUE,
              added   |-> Append(acc.added,
                              AddedRecord(elementPath, elementSteps,
                                          sourceNode.elems[i + 1]))])
    ELSE SyncArrayLoopKeepsTail(sourceNode, targetNode, currentPath,
             currentSteps, i + 1,
             [acc EXCEPT !.arr = Append(acc.arr, targetNode.elems[i + 1]),
                         !.changes = TRUE])

\* Mutant: an element the source alone has is added without marking a change.
RECURSIVE SyncArrayLoopQuietAdd(_, _, _, _, _, _)
SyncArrayLoopQuietAdd(sourceNode, targetNode, currentPath, currentSteps, i, acc) ==
    LET sourceLength == Len(sourceNode.elems)
        targetLength == Len(targetNode.elems)
        maxLength    == Max(sourceLength, targetLength)
        elementPath  == IndexPath(currentPath, i)
        elementSteps == Append(currentSteps, IndexStep(i))
    IN
    IF i >= maxLength THEN acc
    ELSE IF i < sourceLength /\ i < targetLength
    THEN LET result == syncStructure(sourceNode.elems[i + 1],
                                     targetNode.elems[i + 1],
                                     elementPath, elementSteps, acc.added)
         IN  SyncArrayLoopQuietAdd(sourceNode, targetNode, currentPath,
                 currentSteps, i + 1,
                 [arr     |-> Append(acc.arr, result.updatedNode),
                  changes |-> acc.changes \/ result.changesMade,
                  added   |-> result.added])
    ELSE IF i < sourceLength
    THEN SyncArrayLoopQuietAdd(sourceNode, targetNode, currentPath,
             currentSteps, i + 1,
             [arr     |-> Append(acc.arr,
                              createEmptyStructure(sourceNode.elems[i + 1])),
              changes |-> acc.changes,
              added   |-> Append(acc.added,
                              AddedRecord(elementPath, elementSteps,
                                          sourceNode.elems[i + 1]))])
    ELSE SyncArrayLoopQuietAdd(sourceNode, targetNode, currentPath,
             currentSteps, i + 1,
             [acc EXCEPT !.changes = TRUE])

\* One iteration of `for (let i = 0; i < maxLength; i++)` and the ones after
\* it; i counts from 0, acc is [arr, changes, added].
SyncArrayLoop(sourceNode, targetNode, currentPath, currentSteps, i, acc) ==
    LET sourceLength == Len(sourceNode.elems)
        targetLength == Len(targetNode.elems)
        maxLength    == Max(sourceLength, targetLength)
        elementPath  == IndexPath(currentPath, i)
        elementSteps == Append(currentSteps, IndexStep(i))
    IN
    IF i >= maxLength THEN acc
    ELSE IF i < sourceLength /\ i < targetLength
    THEN LET result == syncStructure(sourceNode.elems[i + 1],
                                     targetNode.elems[i + 1],
                                     elementPath, elementSteps, acc.added)
         IN  SyncArrayLoop(sourceNode, targetNode, currentPath, currentSteps,
                 i + 1,
                 [arr     |-> Append(acc.arr, result.updatedNode),
                  changes |-> acc.changes \/ result.changesMade,
                  added   |-> result.added])
    ELSE IF i < sourceLength
    THEN SyncArrayLoop(sourceNode, targetNode, currentPath, currentSteps,
             i + 1,
             [arr     |-> Append(acc.arr,
                              createEmptyStructure(sourceNode.elems[i + 1])),
              changes |-> TRUE,
              added   |-> Append(acc.added,
                              AddedRecord(elementPath, elementSteps,
                                          sourceNode.elems[i + 1]))])
    ELSE \* i < targetLength: the element is dropped
         SyncArrayLoop(sourceNode, targetNode, currentPath, currentSteps,
             i + 1, [acc EXCEPT !.changes = TRUE])

\* Mutant: the merged value of a shared key is not written back.
RECURSIVE SyncObjectSourceLoopNoWriteBack(_, _, _, _, _)
SyncObjectSourceLoopNoWriteBack(sourceNode, currentPath, currentSteps, k, acc) ==
    IF k > Len(sourceNode.keys) THEN acc
    ELSE
    LET key          == sourceNode.keys[k]
        elementPath  == KeyPath(currentPath, key)
        elementSteps == Append(currentSteps, KeyStep(key))
    IN
    IF HasOwn(acc.obj, key)
    THEN LET result == syncStructure(sourceNode.vals[k], GetOwn(acc.obj, key),
                                     elementPath, elementSteps, acc.added)
         IN  SyncObjectSourceLoopNoWriteBack(sourceNode, currentPath,
                 currentSteps, k + 1,
                 [obj     |-> acc.obj,
                  changes |-> acc.changes \/ result.changesMade,
                  added   |-> result.added])
    ELSE SyncObjectSourceLoopNoWriteBack(sourceNode, currentPath,
             currentSteps, k + 1,
             [obj     |-> SetOwn(acc.obj, key,
                              createEmptyStructure(sourceNode.vals[k])),
              changes |-> TRUE,
              added   |-> Append(acc.added,
                              AddedRecord(elementPath, elementSteps,
                                          sourceNode.vals[k]))])

\* `for (const key in sourceNode)` from the k-th key of the source on;
\* acc is [obj, changes, added].
SyncObjectSourceLoop(sourceNode, currentPath, currentSteps, k, acc) ==
    IF k > Len(sourceNode.keys) THEN acc
    ELSE
    LET key          == sourceNode.keys[k]
        elementPath  == KeyPath(currentPath, key)
        elementSteps == Append(currentSteps, KeyStep(key))
    IN
    IF HasOwn(acc.obj, key)
    THEN LET result == syncStructure(sourceNode.vals[k], GetOwn(acc.obj, key),
                                     elementPath, elementSteps, acc.added)
         IN  SyncObjectSourceLoop(sourceNode, currentPath, currentSteps,
                 k + 1,
                 [obj     |-> IF result.changesMade
                              THEN SetOwn(acc.obj, key, result.updatedNode)
                              ELSE acc.obj,
                  changes |-> acc.changes \/ result.changesMade,
                  added   |-> result.added])
    ELSE SyncObjectSourceLoop(sourceNode, currentPath, currentSteps,
             k + 1,
             [obj     |-> SetOwn(acc.obj, key,
                              createEmptyStructure(sourceNode.vals[k])),
              changes |-> TRUE,
              added   |-> Append(acc.added,
                              AddedRecord(elementPath, elementSteps,
                                          sourceNode.vals[k]))])

\* Mutant: a key the source lacks is reported but not deleted.
SyncObjectTargetLoopNoDelete(sourceNode, targetNode, k, acc) ==
    IF \E j \in k..Len(targetNode.keys) : ~HasOwn(sourceNode, targetNode.keys[j])
    THEN [acc EXCEPT !.changes = TRUE]
    ELSE acc

\* Mutant: a key the source lacks is deleted without marking a change.
RECURSIVE SyncObjectTargetLoopNoFlag(_, _, _, _)
SyncObjectTargetLoopNoFlag(sourceNode, targetNode, k, acc) ==
    IF k > Len(targetNode.keys) THEN acc
    ELSE
    LET key == targetNode.keys[k] IN
    IF ~HasOwn(sourceNode, key)
    THEN SyncObjectTargetLoopNoFlag(sourceNode, targetNode, k + 1,
             [acc EXCEPT !.obj = DeleteOwn(acc.obj, key)])
    ELSE SyncObjectTargetLoopNoFlag(sourceNode, targetNode, k + 1, acc)

\* `for (const key in targetNode)`: the keys of the original target that the
\* source does not have are deleted from the copy.
RECURSIVE SyncObjectTargetLoop(_, _, _, _)
SyncObjectTargetLoop(sourceNode, targetNode, k, acc) ==
    IF k > Len(targetNode.keys) THEN acc
    ELSE
    LET key == targetNode.keys[k] IN
    IF ~HasOwn(sourceNode, key)
    THEN SyncObjectTargetLoop(sourceNode, targetNode, k + 1,
             [acc EXCEPT !.obj = DeleteOwn(acc.obj, key), !.changes = TRUE])
    ELSE SyncObjectTargetLoop(sourceNode, targetNode, k + 1, acc)

\* Mutant: where the primitive types match, the source's value is returned.
syncStructureKeepsSource(sourceNode, targetNode, currentPath, currentSteps, collector) ==
    LET sourceType == TypeOf(sourceNode)
        targetType == TypeOf(targetNode)
    IN
    IF sourceType # targetType
    THEN IF isMajorMismatch(sourceType, targetType)
         THEN [updatedNode |-> createEmptyStructure(sourceNode),
               changesMade |-> TRUE,
               added       |-> Append(collector,
                                  AddedRecord(currentPath, currentSteps,
                                              sourceNode))]
         ELSE [updatedNode |-> targetNode,
               changesMade |-> FALSE,
               added       |-> collector]
    ELSE IF sourceType = "array"
    THEN LET r == SyncArrayLoop(sourceNode, targetNode, currentPath,
                      currentSteps, 0,
                      [arr |-> <<>>, changes |-> FALSE, added |-> collector])
         IN  [updatedNode |-> Arr(r.arr),
              changesMade |-> r.changes,
              added       |-> r.added]
    ELSE IF sourceType = "object"
    THEN LET a == SyncObjectSourceLoop(sourceNode, currentPath, currentSteps,
                      1,
                      [obj |-> targetNode, changes |-> FALSE,
                       added |-> collector])
             d == SyncObjectTargetLoop(sourceNode, targetNode, 1, a)
         IN  [updatedNode |-> d.obj,
              changesMade |-> d.changes,
              added       |-> d.added]
    ELSE [updatedNode |-> sourceNode,
          changesMade |-> FALSE,
          added       |-> collector]

syncStructure(sourceNode, targetNode, currentPath, currentSteps, collector) ==
    LET sourceType == TypeOf(sourceNode)
        targetType == TypeOf(targetNode)
    IN
    IF sourceType # targetType
    THEN IF isMajorMismatch(sourceType, targetType)
         THEN [updatedNode |-> createEmptyStructure(sourceNode),
               changesMade |-> TRUE,
               added       |-> Append(collector,
                                  AddedRecord(currentPath, currentSteps,
                                              sourceNode))]
         ELSE [updatedNode |-> targetNode,
               changesMade |-> FALSE,
               added       |-> collector]
    ELSE IF sourceType = "array"
    THEN LET r == SyncArrayLoop(sourceNode, targetNode, currentPath,
                      currentSteps, 0,
                      [arr |-> <<>>, changes |-> FALSE,
                       added |-> collector])
         IN  [updatedNode |-> Arr(r.arr),
              changesMade |-> r.changes,
              added       |-> r.added]
    ELSE IF sourceType = "object"
    THEN LET a == SyncObjectSourceLoop(sourceNode, currentPath, currentSteps,
                      1,
                      [obj |-> targetNode, changes |-> FALSE,
                       added |-> collector])
             d == SyncObjectTargetLoop(sourceNode, targetNode, 1, a)
         IN  [updatedNode |-> d.obj,
              changesMade |-> d.changes,
              added       |-> d.added]
    ELSE [updatedNode |-> targetNode,
          changesMade |-> FALSE,
          added       |-> collector]

(***************************************************************************)
(* setValueAtPath (utils.js)                                               *)
(***************************************************************************)
\* pathString.replace(/^root\.?/, '')
StripRoot(pathString) ==
    IF Len(pathString) >= 4 /\ SubSeq(pathString, 1, 4) = << "r", "o", "o", "t" >>
    THEN IF Len(pathString) >= 5 /\ pathString[5] = "."
         THEN SubSeq(pathString, 6, Len(pathString))
         ELSE SubSeq(pathString, 5, Len(pathString))
    ELSE pathString

\* how many digits s holds from position i on
RECURSIVE DigitRun(_, _)
DigitRun(s, i) ==
    IF i <= Len(s) /\ IsDigit(s[i]) THEN 1 + DigitRun(s, i + 1) ELSE 0

\* whether /\[(\d+)\]/ matches s at position i
BracketAt(s, i) ==
    /\ s[i] = "["
    /\ DigitRun(s, i + 1) > 0
    /\ i + DigitRun(s, i + 1) + 1 <= Len(s)
    /\ s[i + DigitRun(s, i + 1) + 1] = "]"

\* s.split(/\.|\[(\d+)\]/) from position i on: cur is the piece being read,
\* out the pieces so far.  A separator contributes its capture group to the
\* result: the digits of "[digits]", and undefined for ".", which is written
\* as the empty string here (filter(Boolean) drops the one and the other).
RECURSIVE SplitFrom(_, _, _, _)
SplitFrom(s, i, cur, out) ==
    IF i > Len(s) THEN Append(out, cur)
    ELSE IF s[i] = "."
    THEN SplitFrom(s, i + 1, <<>>, out \o << cur, <<>> >>)
    ELSE IF BracketAt(s, i)
    THEN LET n == DigitRun(s, i + 1)
         IN  SplitFrom(s, i + n + 2, <<>>,
                       out \o << cur, SubSeq(s, i + 1, i + n) >>)
    ELSE SplitFrom(s, i + 1, Append(cur, s[i]), out)

\* .filter(Boolean) on strings: the empty ones go
FilterBoolean(pieces) == SelectSeq(pieces, LAMBDA x : Len(x) > 0)

PathSegments(pathString) ==
    FilterBoolean(SplitFrom(StripRoot(pathString), 1, <<>>, <<>>))

\* the property name of `current[undefined]`
UndefinedName == << "u", "n", "d", "e", "f", "i", "n", "e", "d" >>

\* current[segment] of an object or an array (an array keeps its named
\* properties in keys and vals)
GetProp(current, segment) ==
    IF current.type = "array" /\ IsArrayIndex(segment)
    THEN IF ToNum(segment) < Len(current.elems)
         THEN current.elems[ToNum(segment) + 1]
         ELSE Undefined
    ELSE GetOwn(current, segment)

\* current[segment] = value on an object or an array; an index past the end
\* of an array leaves holes before it
SetProp(current, segment, value) ==
    IF current.type = "array" /\ IsArrayIndex(segment)
    THEN LET n == ToNum(segment)
             len == Len(current.elems)
         IN  IF n < len
             THEN [current EXCEPT !.elems[n + 1] = value]
             ELSE [current EXCEPT !.elems =
                      current.elems \o [j \in 1..(n - len) |-> Undefined]
                                    \o << value >>]
    ELSE SetOwn(current, segment, value)

\* The loop of setValueAtPath from segment i on and the final assignment;
\* current is an object or an array.  Returns the new current and whether a
\* "Path type mismatch ... Overwriting" branch was taken.
RECURSIVE WalkPath(_, _, _, _)
WalkPath(current, pathSegments, i, value) ==
    IF i >= Len(pathSegments)
    THEN [node |-> SetProp(current,
                       IF Len(pathSegments) = 0 THEN UndefinedName
                       ELSE pathSegments[Len(pathSegments)],
                       value),
          overwrote |-> FALSE]
    ELSE
    LET segment     == pathSegments[i]
        nextSegment == pathSegments[i + 1]
        nextIsIndex == AllDigits(nextSegment)
        found       == GetProp(current, segment)
        created     == IF found.type \in {"undefined", "null"}
                       THEN (IF nextIsIndex THEN Arr(<<>>) ELSE Obj(<<>>, <<>>))
                       ELSE found
        conflict    == \/ nextIsIndex /\ created.type # "array"
                       \/ ~nextIsIndex /\ created.type \notin {"object", "array"}
                       \/ ~nextIsIndex /\ created.type = "array"
        child       == IF conflict
                       THEN (IF nextIsIndex THEN Arr(<<>>) ELSE Obj(<<>>, <<>>))
                       ELSE created
        rest        == WalkPath(child, pathSegments, i + 1, value)
    IN  [node      |-> SetProp(current, segment, rest.node),
         overwrote |-> conflict \/ rest.overwrote]

\* Mutant: a root that is no object and no array is replaced by a new
\* object, in which the value is set.
setValueAtPathReplacesRoot(obj, pathString, value) ==
    LET r == WalkPath(IF IsContainer(obj) THEN obj ELSE Obj(<<>>, <<>>),
                      PathSegments(pathString), 1, value)
    IN  [obj |-> r.node, overwrote |-> r.overwrote, threw |-> ~IsContainer(obj)]

\* setValueAtPath(obj, pathString, value): the tree after the call, whether an
\* overwrite branch was taken and whether the catch block was entered.  A root
\* that is no object and no array makes the first property assignment, or the
\* final check, throw; nothing has been changed by then.
setValueAtPath(obj, pathString, value) ==
    IF ~IsContainer(obj)
    THEN [obj |-> obj, overwrote |-> FALSE, threw |-> TRUE]
    ELSE LET r == WalkPath(obj, PathSegments(pathString), 1, value)
         IN  [obj |-> r.node, overwrote |-> r.overwrote, threw |-> FALSE]

(***************************************************************************)
(* The same two functions on a heap                                        *)
(*                                                                         *)
(* An object or an array of JavaScript is a reference to a cell that every *)
(* holder of the reference sees change.  A heap is a sequence of cells, a  *)
(* cell is an object or an array whose members are heap values, and a heap *)
(* value is a scalar or a reference: the address of a cell, written in     *)
(* digits in the val field.  On a heap, what a call writes into the cells  *)
(* it was given is visible, which a returned tree alone does not show.     *)
(***************************************************************************)
Ref(a) == Node("ref", ToStr(a), <<>>, <<>>, <<>>)
IsRef(v) == v.type = "ref"
Addr(v) == ToNum(v.val)

\* a new cell, `{}` or `[]` or a literal
Alloc(heap, cell) == [heap |-> Append(heap, cell), ref |-> Ref(Len(heap) + 1)]

\* JSON.parse: the tree is built on the heap, the members before the cell
RECURSIVE Store(_, _)
RECURSIVE StoreAll(_, _, _, _)
StoreAll(heap, trees, i, acc) ==
    IF i > Len(trees) THEN [heap |-> heap, values |-> acc]
    ELSE LET r == Store(heap, trees[i])
         IN  StoreAll(r.heap, trees, i + 1, Append(acc, r.value))

Store(heap, tree) ==
    IF tree.type = "array"
    THEN LET c == StoreAll(heap, tree.elems, 1, <<>>)
             a == Alloc(c.heap, Arr(c.values))
         IN  [heap |-> a.heap, value |-> a.ref]
    ELSE IF tree.type = "object"
    THEN LET c == StoreAll(heap, tree.vals, 1, <<>>)
             a == Alloc(c.heap, Obj(tree.keys, c.values))
         IN  [heap |-> a.heap, value |-> a.ref]
    ELSE [heap |-> heap, value |-> tree]

\* the tree a heap value stands for
RECURSIVE Fetch(_, _)
Fetch(heap, v) ==
    IF ~IsRef(v) THEN v
    ELSE LET c == heap[Addr(v)] IN
         IF c.type = "array"
         THEN Arr([i \in 1..Len(c.elems) |-> Fetch(heap, c.elems[i])])
         ELSE Obj(c.keys, [i \in 1..Len(c.keys) |-> Fetch(heap, c.vals[i])])

\* Array.isArray(n) ? 'array' : (n === null ? 'null' : typeof n)
HeapTypeOf(heap, v) == IF IsRef(v) THEN heap[Addr(v)].type ELSE v.type

RECURSIVE createEmptyStructureOnHeap(_, _)
RECURSIVE EmptyArrayLoop(_, _, _, _)
RECURSIVE EmptyObjectLoop(_, _, _, _, _)

\* Mutant: the strings are blanked in the cells of the value itself.
RECURSIVE createEmptyStructureInPlace(_, _)
RECURSIVE EmptyInPlaceLoop(_, _, _)
EmptyInPlaceLoop(heap, value, i) ==
    LET c == heap[Addr(value)]
        n == IF c.type = "array" THEN Len(c.elems) ELSE Len(c.keys)
    IN
    IF i > n THEN heap
    ELSE LET r == createEmptyStructureInPlace(heap,
                      IF c.type = "array" THEN c.elems[i] ELSE c.vals[i])
         IN  EmptyInPlaceLoop(
                 IF c.type = "array"
                 THEN [r.heap EXCEPT ![Addr(value)].elems[i] = r.value]
                 ELSE [r.heap EXCEPT ![Addr(value)].vals[i] = r.value],
                 value, i + 1)

createEmptyStructureInPlace(heap, value) ==
    IF IsRef(value)
    THEN [heap |-> EmptyInPlaceLoop(heap, value, 1), value |-> value]
    ELSE IF value.type = "string"
    THEN [heap |-> heap, value |-> Str(<<>>)]
    ELSE [heap |-> heap, value |-> value]

\* value.map(element => createEmptyStructure(element)) from element i on;
\* new is the array that map fills
EmptyArrayLoop(heap, value, new, i) ==
    IF i > Len(heap[Addr(value)].elems) THEN heap
    ELSE LET r == createEmptyStructureOnHeap(heap, heap[Addr(value)].elems[i])
         IN  EmptyArrayLoop(
                 [r.heap EXCEPT ![Addr(new)].elems = Append(@, r.value)],
                 value, new, i + 1)

\* `for (const key in value) newObj[key] = createEmptyStructure(value[key])`
\* from the k-th of the keys the loop started with
EmptyObjectLoop(heap, value, keys, new, k) ==
    IF k > Len(keys) THEN heap
    ELSE LET r == createEmptyStructureOnHeap(heap,
                      GetOwn(heap[Addr(value)], keys[k]))
         IN  EmptyObjectLoop(
                 [r.heap EXCEPT ![Addr(new)] = SetOwn(@, keys[k], r.value)],
                 value, keys, new, k + 1)

\* createEmptyStructure(value): the heap after the call and the value returned
createEmptyStructureOnHeap(heap, value) ==
    IF HeapTypeOf(heap, value) = "array"
    THEN LET a == Alloc(heap, Arr(<<>>))
         IN  [heap |-> EmptyArrayLoop(a.heap, value, a.ref, 1), value |-> a.ref]
    ELSE IF HeapTypeOf(heap, value) = "object"
    THEN LET a == Alloc(heap, Obj(<<>>, <<>>))
         IN  [heap  |-> EmptyObjectLoop(a.heap, value, heap[Addr(value)].keys,
                            a.ref, 1),
              value |-> a.ref]
    ELSE IF value.type = "string"
    THEN [heap |-> heap, value |-> Str(<<>>)]
    ELSE [heap |-> heap, value |-> value]

\* Mutant: the merge works on the target object itself.
CopyObjectAlias(heap, targetNode) == [heap |-> heap, ref |-> targetNode]

\* `{ ...targetNode }`: a new object with the target's own properties
CopyObject(heap, targetNode) == Alloc(heap, heap[Addr(targetNode)])

RECURSIVE syncStructureOnHeap(_, _, _, _, _, _)
RECURSIVE HeapSyncArrayLoop(_, _, _, _, _, _)
RECURSIVE HeapSyncObjectSourceLoop(_, _, _, _, _, _)

\* The array branch from index i on (i counts from 0); acc is
\* [heap, node, changes, added], node the reference of newTargetArray.
HeapSyncArrayLoop(sourceNode, targetNode, currentPath, currentSteps, i, acc) ==
    LET sourceLength == Len(acc.heap[Addr(sourceNode)].elems)
        targetLength == Len(acc.heap[Addr(targetNode)].elems)
        maxLength    == Max(sourceLength, targetLength)
        elementPath  == IndexPath(currentPath, i)
        elementSteps == Append(currentSteps, IndexStep(i))
        sourceElement == acc.heap[Addr(sourceNode)].elems[i + 1]
        targetElement == acc.heap[Addr(targetNode)].elems[i + 1]
    IN
    IF i >= maxLength THEN acc
    ELSE IF i < sourceLength /\ i < targetLength
    THEN LET result == syncStructureOnHeap(acc.heap, sourceElement,
                           targetElement, elementPath, elementSteps, acc.added)
         IN  HeapSyncArrayLoop(sourceNode, targetNode, currentPath,
                 currentSteps, i + 1,
                 [heap    |-> [result.heap EXCEPT ![Addr(acc.node)].elems =
                                  Append(@, result.updatedNode)],
                  node    |-> acc.node,
                  changes |-> acc.changes \/ result.changesMade,
                  added   |-> result.added])
    ELSE IF i < sourceLength
    THEN LET e == createEmptyStructureOnHeap(acc.heap, sourceElement)
         IN  HeapSyncArrayLoop(sourceNode, targetNode, currentPath,
                 currentSteps, i + 1,
                 [heap    |-> [e.heap EXCEPT ![Addr(acc.node)].elems =
                                  Append(@, e.value)],
                  node    |-> acc.node,
                  changes |-> TRUE,
                  added   |-> Append(acc.added,
                                  AddedRecord(elementPath, elementSteps,
                                              sourceElement))])
    ELSE HeapSyncArrayLoop(sourceNode, targetNode, currentPath, currentSteps,
             i + 1, [acc EXCEPT !.changes = TRUE])

\* `for (const key in sourceNode)` from the k-th of the keys the loop started
\* with; acc is [heap, node, changes, added], node the reference of
\* newTargetObject.
HeapSyncObjectSourceLoop(sourceNode, keys, currentPath, currentSteps, k, acc) ==
    IF k > Len(keys) THEN acc
    ELSE
    LET key          == keys[k]
        elementPath  == KeyPath(currentPath, key)
        elementSteps == Append(currentSteps, KeyStep(key))
        sourceValue  == GetOwn(acc.heap[Addr(sourceNode)], key)
    IN
    IF HasOwn(acc.heap[Addr(acc.node)], key)
    THEN LET result == syncStructureOnHeap(acc.heap, sourceValue,
                           GetOwn(acc.heap[Addr(acc.node)], key),
                           elementPath, elementSteps, acc.added)
         IN  HeapSyncObjectSourceLoop(sourceNode, keys, currentPath,
                 currentSteps, k + 1,
                 [heap    |-> IF result.changesMade
                              THEN [result.heap EXCEPT ![Addr(acc.node)] =
                                       SetOwn(@, key, result.updatedNode)]
                              ELSE result.heap,
                  node    |-> acc.node,
                  changes |-> acc.changes \/ result.changesMade,
                  added   |-> result.added])
    ELSE LET e == createEmptyStructureOnHeap(acc.heap, sourceValue)
         IN  HeapSyncObjectSourceLoop(sourceNode, keys, currentPath,
                 currentSteps, k + 1,
                 [heap    |-> [e.heap EXCEPT ![Addr(acc.node)] =
                                  SetOwn(@, key, e.value)],
                  node    |-> acc.node,
                  changes |-> TRUE,
                  added   |-> Append(acc.added,
                                  AddedRecord(elementPath, elementSteps,
                                              sourceValue))])

\* `for (const key in targetNode)` from the k-th of the keys the loop started
\* with: the keys the source does not have are deleted from newTargetObject
RECURSIVE HeapSyncObjectTargetLoop(_, _, _, _)
HeapSyncObjectTargetLoop(sourceNode, keys, k, acc) ==
    IF k > Len(keys) THEN acc
    ELSE IF ~HasOwn(acc.heap[Addr(sourceNode)], keys[k])
    THEN HeapSyncObjectTargetLoop(sourceNode, keys, k + 1,
             [acc EXCEPT !.heap[Addr(acc.node)] = DeleteOwn(@, keys[k]),
                         !.changes = TRUE])
    ELSE HeapSyncObjectTargetLoop(sourceNode, keys, k + 1, acc)

\* syncStructure(sourceNode, targetNode, currentPath, addedNodesCollector):
\* the heap after the call, the returned { updatedNode, changesMade } and the
\* collector
syncStructureOnHeap(heap, sourceNode, targetNode, currentPath, currentSteps, collector) ==
    LET sourceType == HeapTypeOf(heap, sourceNode)
        targetType == HeapTypeOf(heap, targetNode)
    IN
    IF sourceType # targetType
    THEN IF isMajorMismatch(sourceType, targetType)
         THEN LET e == createEmptyStructureOnHeap(heap, sourceNode)
              IN  [heap        |-> e.heap,
                   updatedNode |-> e.value,
                   changesMade |-> TRUE,
                   added       |-> Append(collector,
                                      AddedRecord(currentPath, currentSteps,
                                                  sourceNode))]
         ELSE [heap |-> heap, updatedNode |-> targetNode,
               changesMade |-> FALSE, added |-> collector]
    ELSE IF sourceType = "array"
    THEN LET a == Alloc(heap, Arr(<<>>))
             r == HeapSyncArrayLoop(sourceNode, targetNode, currentPath,
                      currentSteps, 0,
                      [heap |-> a.heap, node |-> a.ref, changes |-> FALSE,
                       added |-> collector])
         IN  [heap |-> r.heap, updatedNode |-> r.node,
              changesMade |-> r.changes, added |-> r.added]
    ELSE IF sourceType = "object"
    THEN LET c == CopyObject(heap, targetNode)
             a == HeapSyncObjectSourceLoop(sourceNode,
                      c.heap[Addr(sourceNode)].keys, currentPath,
                      currentSteps, 1,
                      [heap |-> c.heap, node |-> c.ref, changes |-> FALSE,
                       added |-> collector])
             d == HeapSyncObjectTargetLoop(sourceNode,
                      a.heap[Addr(targetNode)].keys, 1, a)
         IN  [heap |-> d.heap, updatedNode |-> d.node,
              changesMade |-> d.changes, added |-> d.added]
    ELSE [heap |-> heap, updatedNode |-> targetNode,
          changesMade |-> FALSE, added |-> collector]

(***************************************************************************)
(* Placeholders (translator.js)                                            *)
(***************************************************************************)
\* How many strings go into one request
BATCH_SIZE == 30

\* The characters of the strings, in the order of their UTF-16 code units,
\* which is the order Array.prototype.sort compares strings by
Alphabet ==
    << " ", "%", ".", "0", "1", "2", "3", "4", "5", "6", "7", "8", "9", ":",
       "A", "B", "C", "D", "E", "F", "G", "H", "I", "J", "K", "L", "M", "N",
       "O", "P", "Q", "R", "S", "T", "U", "V", "W", "X", "Y", "Z", "[", "]",
       "_", "a", "b", "c", "d", "e", "f", "g", "h", "i", "j", "k", "l", "m",
       "n", "o", "p", "q", "r", "s", "t", "u", "v", "w", "x", "y", "z", "{",
       "}" >>

CodeUnit(c) == CHOOSE i \in 1..Len(Alphabet) : Alphabet[i] = c

\* \s and \w of the regular expression, and the class [\w.]
IsSpace(c) == c = " "
IsWord(c) ==
    \/ IsDigit(c)
    \/ c = "_"
    \/ (CodeUnit("A") <= CodeUnit(c) /\ CodeUnit(c) <= CodeUnit("Z"))
    \/ (CodeUnit("a") <= CodeUnit(c) /\ CodeUnit(c) <= CodeUnit("z"))
IsWordOrDot(c) == IsWord(c) \/ c = "."

\* text.trim() is the empty string
IsBlank(text) == \A i \in 1..Len(text) : IsSpace(text[i])

\* The position after the longest run, from position i on, of characters of
\* a class; the classes that follow one another in PLACEHOLDER_REGEX have no
\* character in common, so the longest run is the one the match uses.
RECURSIVE SpacesEnd(_, _)
SpacesEnd(s, i) ==
    IF i <= Len(s) /\ IsSpace(s[i]) THEN SpacesEnd(s, i + 1) ELSE i

RECURSIVE WordDotsEnd(_, _)
WordDotsEnd(s, i) ==
    IF i <= Len(s) /\ IsWordOrDot(s[i]) THEN WordDotsEnd(s, i + 1) ELSE i

RECURSIVE WordsEnd(_, _)
WordsEnd(s, i) ==
    IF i <= Len(s) /\ IsWord(s[i]) THEN WordsEnd(s, i + 1) ELSE i

Is(s, i, c) == i <= Len(s) /\ s[i] = c

\* Each alternative of PLACEHOLDER_REGEX tried at position i: the position
\* after the match, or 0 where it does not match.
\*   \{\{\s*[\w.]+\s*\}\}
DoubleBraceEnd(s, i) ==
    IF Is(s, i, "{") /\ Is(s, i + 1, "{")
    THEN LET a == SpacesEnd(s, i + 2)
             b == WordDotsEnd(s, a)
             c == SpacesEnd(s, b)
         IN  IF b > a /\ Is(s, c, "}") /\ Is(s, c + 1, "}") THEN c + 2 ELSE 0
    ELSE 0

\*   {\s*[\w.]+\s*}
SingleBraceEnd(s, i) ==
    IF Is(s, i, "{")
    THEN LET a == SpacesEnd(s, i + 1)
             b == WordDotsEnd(s, a)
             c == SpacesEnd(s, b)
         IN  IF b > a /\ Is(s, c, "}") THEN c + 1 ELSE 0
    ELSE 0

\*   %[sd]
PercentEnd(s, i) ==
    IF Is(s, i, "%") /\ (Is(s, i + 1, "s") \/ Is(s, i + 1, "d"))
    THEN i + 2 ELSE 0

\*   \%\{[\w.]+\}
PercentBraceEnd(s, i) ==
    IF Is(s, i, "%") /\ Is(s, i + 1, "{")
    THEN LET b == WordDotsEnd(s, i + 2)
         IN  IF b > i + 2 /\ Is(s, b, "}") THEN b + 1 ELSE 0
    ELSE 0

\*   :\w+
ColonEnd(s, i) ==
    IF Is(s, i, ":")
    THEN LET b == WordsEnd(s, i + 1) IN IF b > i + 1 THEN b ELSE 0
    ELSE 0

\* the first alternative, in the order they are written, that matches at i
MatchEnd(s, i) ==
    IF DoubleBraceEnd(s, i) # 0 THEN DoubleBraceEnd(s, i)
    ELSE IF SingleBraceEnd(s, i) # 0 THEN SingleBraceEnd(s, i)
    ELSE IF PercentEnd(s, i) # 0 THEN PercentEnd(s, i)
    ELSE IF PercentBraceEnd(s, i) # 0 THEN PercentBraceEnd(s, i)
    ELSE ColonEnd(s, i)

\* text.match(PLACEHOLDER_REGEX) with the g flag: the matches from left to
\* right, each search starting where the last match ended
RECURSIVE MatchAll(_, _, _)
MatchAll(s, i, out) ==
    IF i > Len(s) THEN out
    ELSE IF MatchEnd(s, i) # 0
    THEN MatchAll(s, MatchEnd(s, i), Append(out, SubSeq(s, i, MatchEnd(s, i) - 1)))
    ELSE MatchAll(s, i + 1, out)

\* [...new Set(matches)]: the first occurrence of each match, in order
RECURSIVE Distinct(_, _, _)
Distinct(matches, i, out) ==
    IF i > Len(matches) THEN out
    ELSE IF \E j \in 1..Len(out) : out[j] = matches[i]
    THEN Distinct(matches, i + 1, out)
    ELSE Distinct(matches, i + 1, Append(out, matches[i]))

\* a < b as sort() compares two strings: by code units, a prefix first
RECURSIVE StringLess(_, _)
StringLess(a, b) ==
    IF Len(b) = 0 THEN FALSE
    ELSE IF Len(a) = 0 THEN TRUE
    ELSE IF a[1] # b[1] THEN CodeUnit(a[1]) < CodeUnit(b[1])
    ELSE StringLess(Tail(a), Tail(b))

\* .sort() of a list of strings
RECURSIVE SortStrings(_)
SortStrings(list) ==
    IF Len(list) <= 1 THEN list
    ELSE LET rest == SortStrings(Tail(list))
             p == 1 + Cardinality({ j \in 1..Len(rest) :
                                      ~StringLess(list[1], rest[j]) })
         IN  InsertAt(rest, p, list[1])

\* Mutant: the matches are sorted but repeated matches are kept.
extractPlaceholdersKeepsRepeats(text) ==
    IF text.type # "string" THEN <<>>
    ELSE SortStrings(MatchAll(text.val, 1, <<>>))

\* extractPlaceholders(text), text any value
extractPlaceholders(text) ==
    IF text.type # "string" THEN <<>>
    ELSE SortStrings(Distinct(MatchAll(text.val, 1, <<>>), 1, <<>>))

\* comparePlaceholders(sourceText, translatedText)
comparePlaceholders(sourceText, translatedText) ==
    LET sourcePlaceholders     == extractPlaceholders(sourceText)
        translatedPlaceholders == extractPlaceholders(translatedText)
    IN
    IF Len(sourcePlaceholders) = 0 THEN TRUE
    ELSE IF Len(sourcePlaceholders) # Len(translatedPlaceholders) THEN FALSE
    ELSE ~ \E index \in 1..Len(sourcePlaceholders) :
               sourcePlaceholders[index] # translatedPlaceholders[index]

(***************************************************************************)
(* Translation (translator.js)                                             *)
(*                                                                         *)
(* What one call of aiClientInstance.models.generateContent gives is a     *)
(* record: kind "throw" where the call rejects, "empty" where              *)
(* response.text is empty, "unparseable" where JSON.parse of the text      *)
(* throws, and "json" with the parsed value.                               *)
(***************************************************************************)
Throws == [kind |-> "throw", value |-> Undefined]
EmptyText == [kind |-> "empty", value |-> Undefined]
Unparseable == [kind |-> "unparseable", value |-> Undefined]
Json(v) == [kind |-> "json", value |-> v]

\* item.text && typeof item.text === 'string' && item.text.trim()
IsValidText(text) == text.type = "string" /\ ~IsBlank(text.val)

\* how many of the first j texts pass the filter: the place of text j among
\* validTextsInfo
ValidRank(texts, j) == Cardinality({ m \in 1..j : IsValidText(texts[m]) })

\* translatedBatchRaw[i] ?? ""
OrEmptyString(v) == IF v.type \in {"null", "undefined"} THEN Str(<<>>) ELSE v

\* Mutant: one mismatch of placeholders gives the whole batch back.
translateBatchInternalAllOrNothing(aiClient, texts, response) ==
    LET translatedBatchRaw == response.value IN
    IF ~aiClient THEN texts
    ELSE IF ValidRank(texts, Len(texts)) = 0
    THEN [j \in 1..Len(texts) |->
             IF texts[j].type = "string" THEN texts[j] ELSE Str(<<>>)]
    ELSE IF response.kind # "json" THEN texts
    ELSE IF \/ translatedBatchRaw.type # "array"
            \/ Len(translatedBatchRaw.elems) # ValidRank(texts, Len(texts))
    THEN texts
    ELSE IF \E j \in 1..Len(texts) :
              /\ IsValidText(texts[j])
              /\ ~comparePlaceholders(texts[j],
                     OrEmptyString(translatedBatchRaw.elems[ValidRank(texts, j)]))
    THEN texts
    ELSE [j \in 1..Len(texts) |->
             IF IsValidText(texts[j])
             THEN OrEmptyString(translatedBatchRaw.elems[ValidRank(texts, j)])
             ELSE texts[j]]

\* translateBatchInternal(texts, ...) where the request, if one is sent, is
\* answered by response: the list returned
translateBatchInternal(aiClient, texts, response) ==
    LET translatedBatchRaw == response.value IN
    IF ~aiClient THEN texts
    ELSE IF ValidRank(texts, Len(texts)) = 0
    THEN [j \in 1..Len(texts) |->
             IF texts[j].type = "string" THEN texts[j] ELSE Str(<<>>)]
    ELSE IF response.kind # "json" THEN texts
    ELSE IF \/ translatedBatchRaw.type # "array"
            \/ Len(translatedBatchRaw.elems) # ValidRank(texts, Len(texts))
    THEN texts
    ELSE [j \in 1..Len(texts) |->
             IF IsValidText(texts[j])
             THEN LET translatedString ==
                          OrEmptyString(
                              translatedBatchRaw.elems[ValidRank(texts, j)])
                  IN  IF comparePlaceholders(texts[j], translatedString)
                      THEN translatedString
                      ELSE texts[j]
             ELSE texts[j]]

\* collectStrings(node, strings): the strings pushed, in the order pushed.
\* The members lo..hi of a container are visited in order; the range is
\* halved to keep the evaluation shallow.
RECURSIVE collectStrings(_)
RECURSIVE CollectAll(_, _, _)
CollectAll(nodes, lo, hi) ==
    IF lo > hi THEN <<>>
    ELSE IF lo = hi THEN collectStrings(nodes[lo])
    ELSE CollectAll(nodes, lo, (lo + hi) \div 2)
             \o CollectAll(nodes, (lo + hi) \div 2 + 1, hi)

collectStrings(node) ==
    IF node.type = "array" THEN CollectAll(node.elems, 1, Len(node.elems))
    ELSE IF node.type = "object" THEN CollectAll(node.vals, 1, Len(node.vals))
    ELSE IF node.type = "string" /\ ~IsBlank(node.val) THEN << node >>
    ELSE <<>>

\* Mutant: the cursor is read one place further on.
NextTranslationSkipsOne(list, index, node) ==
    IF index + 1 < Len(list) /\ list[index + 2].type \notin {"null", "undefined"}
    THEN list[index + 2]
    ELSE node

\* translatedState.list[translatedState.index] ?? node, index from 0
NextTranslation(list, index, node) ==
    IF index < Len(list) /\ list[index + 1].type \notin {"null", "undefined"}
    THEN list[index + 1]
    ELSE node

\* reconstructStructure(node, translatedState): the value returned and the
\* index the shared state is left with.  The members lo..hi of a container
\* are rebuilt in order, each starting with the index the one before it
\* left; the range is halved to keep the evaluation shallow.
RECURSIVE reconstructStructure(_, _, _)
RECURSIVE ReconstructMembers(_, _, _, _, _)
ReconstructMembers(members, list, lo, hi, index) ==
    IF lo > hi THEN [nodes |-> <<>>, index |-> index]
    ELSE IF lo = hi
    THEN LET r == reconstructStructure(members[lo], list, index)
         IN  [nodes |-> << r.node >>, index |-> r.index]
    ELSE LET left  == ReconstructMembers(members, list, lo, (lo + hi) \div 2,
                          index)
             right == ReconstructMembers(members, list,
                          (lo + hi) \div 2 + 1, hi, left.index)
         IN  [nodes |-> left.nodes \o right.nodes, index |-> right.index]

reconstructStructure(node, list, index) ==
    IF node.type = "array"
    THEN LET r == ReconstructMembers(node.elems, list, 1, Len(node.elems),
                      index)
         IN  [node |-> Arr(r.nodes), index |-> r.index]
    ELSE IF node.type = "object"
    THEN LET r == ReconstructMembers(node.vals, list, 1, Len(node.vals),
                      index)
         IN  [node |-> Obj(node.keys, r.nodes), index |-> r.index]
    ELSE IF node.type = "string" /\ ~IsBlank(node.val)
    THEN [node |-> NextTranslation(list, index, node), index |-> index + 1]
    ELSE [node |-> node, index |-> index]

\* originalStrings.slice(i, i + BATCH_SIZE), i from 0
Slice(strings, i) == SubSeq(strings, i + 1, Min(i + BATCH_SIZE, Len(strings)))

\* Mutant: an exception of the request is not caught.
translateJsonFileContentNoCatch(aiClient, sourceJson, response) ==
    IF ~aiClient
    THEN [value |-> createEmptyStructure(sourceJson), threw |-> FALSE]
    ELSE IF ~IsContainer(sourceJson)
    THEN [value |-> createEmptyStructure(sourceJson), threw |-> FALSE]
    ELSE IF response.kind = "throw"
    THEN [value |-> Undefined, threw |-> TRUE]
    ELSE IF response.kind \in {"empty", "unparseable"}
    THEN [value |-> createEmptyStructure(sourceJson), threw |-> FALSE]
    ELSE IF ~IsContainer(response.value)
    THEN [value |-> createEmptyStructure(sourceJson), threw |-> FALSE]
    ELSE [value |-> response.value, threw |-> FALSE]

\* The strings of the common places of the source and the translated tree
\* whose placeholders validateStructurePlaceholders compares, as
\* << source string, translated string >>: the call logs the pairs that do
\* not match and changes nothing.
RECURSIVE validateStructurePlaceholders(_, _)
validateStructurePlaceholders(sourceNode, translatedNode) ==
    IF TypeOf(sourceNode) # TypeOf(translatedNode) THEN {}
    ELSE IF TypeOf(sourceNode) = "array"
    THEN UNION { validateStructurePlaceholders(sourceNode.elems[i],
                                               translatedNode.elems[i]) :
                 i \in 1..Min(Len(sourceNode.elems), Len(translatedNode.elems)) }
    ELSE IF TypeOf(sourceNode) = "object"
    THEN UNION { validateStructurePlaceholders(sourceNode.vals[k],
                     GetOwn(translatedNode, sourceNode.keys[k])) :
                 k \in { j \in 1..Len(sourceNode.keys) :
                           HasOwn(translatedNode, sourceNode.keys[j]) } }
    ELSE IF TypeOf(sourceNode) = "string"
    THEN { << sourceNode, translatedNode >> }
    ELSE {}

\* Mutant: a string whose placeholders do not match is put back as the
\* source has it.
RECURSIVE RevertMismatches(_, _)
RevertMismatches(sourceNode, translatedNode) ==
    IF TypeOf(sourceNode) # TypeOf(translatedNode) THEN translatedNode
    ELSE IF TypeOf(sourceNode) = "array"
    THEN Arr([i \in 1..Len(translatedNode.elems) |->
                 IF i <= Len(sourceNode.elems)
                 THEN RevertMismatches(sourceNode.elems[i],
                                       translatedNode.elems[i])
                 ELSE translatedNode.elems[i]])
    ELSE IF TypeOf(sourceNode) = "object"
    THEN Obj(translatedNode.keys,
             [k \in 1..Len(translatedNode.keys) |->
                 IF HasOwn(sourceNode, translatedNode.keys[k])
                 THEN RevertMismatches(GetOwn(sourceNode, translatedNode.keys[k]),
                                       translatedNode.vals[k])
                 ELSE translatedNode.vals[k]])
    ELSE IF TypeOf(sourceNode) = "string"
    THEN IF comparePlaceholders(sourceNode, translatedNode)
         THEN translatedNode ELSE sourceNode
    ELSE translatedNode

ValidatedJsonReverts(sourceJson, translatedJson) ==
    RevertMismatches(sourceJson, translatedJson)

\* what translateJsonFileContent returns once the response is parsed:
\* validateStructurePlaceholders has logged, translatedJson is as parsed
ValidatedJson(sourceJson, translatedJson) == translatedJson

\* translateJsonFileContent(sourceJson, ...) where the request, if one is
\* sent, is answered by response: the value returned, and whether an
\* exception leaves the function
translateJsonFileContent(aiClient, sourceJson, response) ==
    IF ~aiClient
    THEN [value |-> createEmptyStructure(sourceJson), threw |-> FALSE]
    ELSE IF ~IsContainer(sourceJson)
    THEN [value |-> createEmptyStructure(sourceJson), threw |-> FALSE]
    ELSE IF response.kind = "throw"
    THEN [value |-> createEmptyStructure(sourceJson), threw |-> FALSE]
    ELSE IF response.kind \in {"empty", "unparseable"}
    THEN [value |-> createEmptyStructure(sourceJson), threw |-> FALSE]
    ELSE IF ~IsContainer(response.value)
    THEN [value |-> createEmptyStructure(sourceJson), threw |-> FALSE]
    ELSE [value |-> ValidatedJson(sourceJson, response.value),
          threw |-> FALSE]

(***************************************************************************)
(* The inputs: every pair of JSON trees of at most MaxNodes nodes together *)
(* over a few scalars and keys, and the scenarios the documentation names. *)
(***************************************************************************)
Scalars ==
    { Str(<< "x" >>), Str(<<>>), Num(<< "1" >>), Bool(<< "t" >>), Null }

\* a plain key and a key made of digits
Keys == { << "a" >>, << "0" >> }

\* The property order of a parsed object: integer keys ascending, then the
\* other keys in the order of the text.
JSOrdered(ks) ==
    \A i \in 1..Len(ks) : InsertPos(SubSeq(ks, 1, i - 1), ks[i]) = i

KeySeqs(k) ==
    { ks \in [1..k -> Keys] :
        /\ \A i, j \in 1..k : i # j => ks[i] # ks[j]
        /\ JSOrdered(ks) }

RECURSIVE TreesOfSize(_)
RECURSIVE ChildSeqs(_, _)

\* the sequences of k trees that have s nodes together
ChildSeqs(k, s) ==
    IF k = 0 THEN (IF s = 0 THEN { <<>> } ELSE {})
    ELSE UNION { { << c >> \o rest : c \in TreesOfSize(n),
                                     rest \in ChildSeqs(k - 1, s - n) } :
                 n \in 1..(s - (k - 1)) }

\* the trees of exactly n nodes
TreesOfSize(n) ==
    IF n = 1 THEN Scalars \cup { Obj(<<>>, <<>>), Arr(<<>>) }
    ELSE UNION { { Arr(es) : es \in ChildSeqs(k, n - 1) } : k \in 1..(n - 1) }
         \cup
         UNION { { Obj(ks, vs) : ks \in KeySeqs(k), vs \in ChildSeqs(k, n - 1) } :
                 k \in 1..Min(n - 1, Cardinality(Keys)) }

TreesUpTo(n) == UNION { TreesOfSize(m) : m \in 1..n }

Key(c) == << c >>
Oops == << "o", "o", "p", "s" >>

\* Scenarios A to D of the documentation and the two arrays of scenario B
\* on their own, as << source, target >>
Scenarios ==
    { << Arr(<< Str(<< "x" >>), Str(<< "y" >>), Str(<< "z" >>) >>),
         Arr(<< Str(<< "X" >>) >>) >> }
    \cup
    { << Obj(<< Key("a"), Key("b") >>,
             << Str(<< "h", "i" >>), Obj(<< Key("c") >>, << Num(<< "1" >>) >>) >>),
         Obj(<< Key("a") >>, << Str(<< "b", "o", "n" >>) >>) >>,
      << Obj(<< Key("l") >>,
             << Arr(<< Str(<< "x" >>), Str(<< "y" >>), Str(<< "z" >>) >>) >>),
         Obj(<< Key("l") >>, << Arr(<< Str(<< "X" >>) >>) >>) >>,
      << Obj(<< Key("a") >>, << Obj(<< Key("x") >>, << Num(<< "1" >>) >>) >>),
         Obj(<< Key("a") >>, << Str(Oops) >>) >>,
      << Obj(<< Key("k") >>, << Str(<< "v" >>) >>),
         Obj(<< Key("k"), Key("o") >>, << Str(<< "v" >>), Num(<< "1" >>) >>) >> }

\* Inputs whose added paths hold a key of digits below an existing object, a
\* key with a dot and a key with brackets, as << source, target >>
AddressingCases ==
    { << Obj(<< Key("a") >>, << Obj(<< Key("0") >>, << Str(<< "x" >>) >>) >>),
         Obj(<< Key("a") >>, << Obj(<<>>, <<>>) >>) >>,
      << Obj(<< << "a", ".", "b" >> >>, << Str(<< "x" >>) >>),
         Obj(<<>>, <<>>) >>,
      << Obj(<< << "a", "[", "0", "]" >> >>, << Str(<< "x" >>) >>),
         Obj(<<>>, <<>>) >> }

\* the values setValueAtPath is given
InjectValues == { Str(<< "z" >>), Arr(<< Str(<< "z" >>) >>) }

RootPath == << "r", "o", "o", "t" >>

\* the path strings setValueAtPath is given on a tree of its own: the root,
\* a key, an index, a key below a key, and a key below an index
SetPaths ==
    { RootPath,
      RootPath \o << ".", "a" >>,
      RootPath \o << "[", "0", "]" >>,
      << "a", ".", "0" >>,
      RootPath \o << "[", "1", "]", ".", "a" >> }

NoResult == [updatedNode |-> Undefined, changesMade |-> FALSE]
NoHeapResult ==
    [source |-> Undefined, target |-> Undefined, updatedNode |-> Undefined,
     changesMade |-> FALSE, added |-> <<>>]
NoInjection ==
    [record |-> 0, value |-> Undefined, obj |-> Undefined,
     overwrote |-> FALSE, threw |-> FALSE]

TranslationIdle ==
    /\ fragment = Undefined
    /\ tpc = "off"
    /\ originalStrings = <<>>
    /\ batchStart = 0
    /\ allTranslatedStringsValidated = <<>>
    /\ responses = <<>>
    /\ batchResults = <<>>
    /\ translated = Undefined
    /\ reconstructed = FALSE
    /\ threw = FALSE

TranslatorIdle == aiClientInstance = FALSE /\ TranslationIdle

RunIdle ==
    /\ rpc = "off"
    /\ sourceLang = ""
    /\ targetLangs = <<>>
    /\ enableTranslation = FALSE
    /\ dirs = <<>>
    /\ langIndex = 0
    /\ queue = <<>>
    /\ langChangesCount = 0
    /\ totalChangesCount = 0
    /\ operations = <<>>
    /\ compared = <<>>
    /\ failedLanguages = <<>>
    /\ runNumber = 0

Init ==
    /\ TranslatorIdle
    /\ RunIdle
    /\ \/ \E n \in 1..(MaxNodes - 1) :
            /\ source \in TreesOfSize(n)
            /\ target \in TreesUpTo(MaxNodes - n)
       \/ \E sc \in Scenarios \cup AddressingCases :
            source = sc[1] /\ target = sc[2]
    /\ pc = "start"
    /\ syncResult = NoResult
    /\ addedNodes = <<>>
    /\ resyncResult = NoResult
    /\ resyncAdded = <<>>
    /\ injected = NoInjection
    /\ heapBefore = <<>>
    /\ heapAfter = <<>>
    /\ heapResult = NoHeapResult

\* syncStructure(source, target, 'root', []) as runSync calls it
Sync ==
    /\ pc = "start"
    /\ LET r == syncStructure(source, target, RootPath, <<>>, <<>>)
       IN  /\ syncResult' = [updatedNode |-> r.updatedNode,
                             changesMade |-> r.changesMade]
           /\ addedNodes' = r.added
    /\ pc' = "synced"
    /\ UNCHANGED << source, target, resyncResult, resyncAdded, injected,
                    heapBefore, heapAfter, heapResult >>
    /\ UNCHANGED << translateVars, runVars >>

\* a second syncStructure, of the same source with the merged tree
Resync ==
    /\ pc = "synced"
    /\ LET r == syncStructure(source, syncResult.updatedNode, RootPath, <<>>, <<>>)
       IN  /\ resyncResult' = [updatedNode |-> r.updatedNode,
                               changesMade |-> r.changesMade]
           /\ resyncAdded' = r.added
    /\ pc' = "resynced"
    /\ UNCHANGED << source, target, syncResult, addedNodes, injected,
                    heapBefore, heapAfter, heapResult >>
    /\ UNCHANGED << translateVars, runVars >>

\* setValueAtPath(merged, addedInfo.path, value) for one added record
Inject ==
    /\ pc = "synced"
    /\ \E i \in 1..Len(addedNodes), value \in InjectValues :
         LET r == setValueAtPath(syncResult.updatedNode, addedNodes[i].path, value)
         IN  injected' = [record |-> i, value |-> value, obj |-> r.obj,
                          overwrote |-> r.overwrote, threw |-> r.threw]
    /\ pc' = "injected"
    /\ UNCHANGED << source, target, syncResult, addedNodes,
                    resyncResult, resyncAdded,
                    heapBefore, heapAfter, heapResult >>
    /\ UNCHANGED << translateVars, runVars >>

\* createEmptyStructure(sourceJson) on the parsed source, as runSync calls it
\* for a file the target language lacks
Empty ==
    /\ pc = "start"
    /\ LET s == Store(<<>>, source)
           r == createEmptyStructureOnHeap(s.heap, s.value)
       IN  /\ heapBefore' = s.heap
           /\ heapAfter' = r.heap
           /\ heapResult' = [NoHeapResult EXCEPT !.source = s.value,
                                                 !.updatedNode = r.value]
    /\ pc' = "emptied"
    /\ UNCHANGED << source, target, syncResult, addedNodes,
                    resyncResult, resyncAdded, injected >>
    /\ UNCHANGED << translateVars, runVars >>

\* syncStructure(sourceJson, originalTargetJson, 'root', addedNodes) on the
\* two parsed trees
HeapSync ==
    /\ pc = "start"
    /\ LET s == Store(<<>>, source)
           t == Store(s.heap, target)
           r == syncStructureOnHeap(t.heap, s.value, t.value, RootPath,
                                    <<>>, <<>>)
       IN  /\ heapBefore' = t.heap
           /\ heapAfter' = r.heap
           /\ heapResult' = [source |-> s.value, target |-> t.value,
                             updatedNode |-> r.updatedNode,
                             changesMade |-> r.changesMade,
                             added |-> r.added]
    /\ pc' = "heapsynced"
    /\ UNCHANGED << source, target, syncResult, addedNodes,
                    resyncResult, resyncAdded, injected >>
    /\ UNCHANGED << translateVars, runVars >>

\* setValueAtPath(obj, pathString, value) on any tree and path
SetValue ==
    /\ pc = "start"
    /\ \E pathString \in SetPaths :
         LET r == setValueAtPath(target, pathString, Str(<< "z" >>))
         IN  injected' = [record |-> 0, value |-> Str(<< "z" >>),
                          obj |-> r.obj, overwrote |-> r.overwrote,
                          threw |-> r.threw]
    /\ pc' = "set"
    /\ UNCHANGED << source, target, syncResult, addedNodes,
                    resyncResult, resyncAdded,
                    heapBefore, heapAfter, heapResult >>
    /\ UNCHANGED << translateVars, runVars >>

Next == Sync \/ Resync \/ Inject \/ Empty \/ HeapSync \/ SetValue

Spec == Init /\ [][Next]_vars

(***************************************************************************)
(* The inputs of the translation: the fragments handed to                  *)
(* translateStructureInBatches and translateJsonFileContent, and what the  *)
(* translation service may answer.                                         *)
(***************************************************************************)
\* The small fragments have at most this many nodes.
MaxFragment == 2

\* Batches of at most this many strings get every combination of candidate
\* translations; longer batches get the translations named below.
MaxFree == 2

Hello == << "H", "e", "l", "l", "o", " ", "{", "{", "n", "a", "m", "e", "}", "}" >>
BonjourName ==
    << "B", "o", "n", "j", "o", "u", "r", " ", "{", "{", "n", "a", "m", "e", "}", "}" >>
BonjourNom ==
    << "B", "o", "n", "j", "o", "u", "r", " ", "{", "{", "n", "o", "m", "}", "}" >>
Bonjour == << "B", "o", "n", "j", "o", "u", "r" >>
TwiceN == << "{", "n", "}", " ", "{", "n", "}" >>
OnceN == << "{", "n", "}" >>
PercentThenId == << "%", "s", " ", ":", "i", "d" >>
IdThenPercent == << ":", "i", "d", " ", "%", "s" >>
BraceAB == << "{", "{", "a", "}", "}", " ", "{", "b", "}" >>
BraceAC == << "{", "{", "a", "}", "}", " ", "{", "c", "}" >>
Blank == << " ", " " >>

\* the k-th of a run of numbered strings: "s1", "s2", ...
Numbered(k) == Str(<< "s" >> \o ToStr(k))

\* a translation that keeps every character of the source, and one that
\* keeps none
Translate(s) == Str(<< "T" >> \o s.val)
Broken == Str(<< "B" >>)

\* translations of the strings above that a service may give
Dictionary(s) ==
    CASE s.val = Hello -> { Str(BonjourName), Str(BonjourNom), Str(Bonjour) }
      [] s.val = TwiceN -> { Str(OnceN) }
      [] s.val = PercentThenId -> { Str(IdThenPercent) }
      [] s.val = BraceAB -> { Str(BraceAC) }
      [] OTHER -> {}

Candidates(s) == { Translate(s), Broken, Null } \cup Dictionary(s)

\* one more string than a batch holds, in an array
LongArray == Arr([k \in 1..(BATCH_SIZE + 1) |-> Numbered(k)])

\* more strings than a batch holds, below an object, among values that are
\* not sent
LongObject ==
    Obj(<< Key("a"), Key("b"), Key("c") >>,
        << Arr([k \in 1..BATCH_SIZE |->
                   IF k = 3 THEN Num(<< "7" >>) ELSE Numbered(k)]),
           Str(Blank),
           Obj(<< Key("d"), Key("e"), Key("f") >>,
               << Str(Hello), Null, Numbered(BATCH_SIZE + 1) >>) >>)

NamedFragments ==
    { Str(Hello),
      Obj(<< Key("g"), Key("n"), Key("b") >>,
          << Str(Hello), Num(<< "1" >>), Str(Blank) >>),
      Arr(<< Str(TwiceN), Null, Str(PercentThenId) >>),
      Arr(<< Str(BraceAB), Bool(<< "t" >>), Str(<< "x" >>) >>),
      LongArray,
      LongObject }

Fragments == TreesUpTo(MaxFragment) \cup NamedFragments

\* the lists of translations a service may give for a batch
ItemLists(batch) ==
    IF Len(batch) <= MaxFree
    THEN LET all == UNION { Candidates(batch[i]) : i \in 1..Len(batch) }
         IN  { items \in [1..Len(batch) -> all] :
                 \A i \in 1..Len(batch) : items[i] \in Candidates(batch[i]) }
    ELSE LET kept == [i \in 1..Len(batch) |-> Translate(batch[i])]
         IN  { kept, [kept EXCEPT ![1] = Broken],
               [kept EXCEPT ![Len(batch)] = Broken] }

\* what generateContent may give for a batch of strings
BatchResponses(batch) ==
    { Throws, EmptyText, Unparseable, Json(Obj(<<>>, <<>>)),
      Json(Arr([i \in 1..(Len(batch) - 1) |-> Translate(batch[i])])),
      Json(Arr([i \in 1..(Len(batch) + 1) |-> Broken])) }
    \cup { Json(Arr(items)) : items \in ItemLists(batch) }

\* a whole tree translated by a service that keeps the structure
RECURSIVE TranslateTree(_, _)
TranslateTree(node, kept) ==
    IF node.type = "array"
    THEN Arr([i \in 1..Len(node.elems) |-> TranslateTree(node.elems[i], kept)])
    ELSE IF node.type = "object"
    THEN Obj(node.keys,
             [i \in 1..Len(node.keys) |-> TranslateTree(node.vals[i], kept)])
    ELSE IF node.type = "string" /\ ~IsBlank(node.val)
    THEN IF kept THEN Translate(node) ELSE Broken
    ELSE node

\* what generateContent may give for a whole tree
FileResponses(sourceJson) ==
    { Throws, EmptyText, Unparseable, Json(Null), Json(Str(<< "x" >>)),
      Json(Obj(<<>>, <<>>)),
      Json(TranslateTree(sourceJson, TRUE)),
      Json(TranslateTree(sourceJson, FALSE)) }

MergeIdle ==
    /\ source = Undefined
    /\ target = Undefined
    /\ pc = "off"
    /\ syncResult = NoResult
    /\ addedNodes = <<>>
    /\ resyncResult = NoResult
    /\ resyncAdded = <<>>
    /\ injected = NoInjection
    /\ heapBefore = <<>>
    /\ heapAfter = <<>>
    /\ heapResult = NoHeapResult

\* initializeTranslator has been called or not; a fragment is at hand
InitTranslate ==
    /\ MergeIdle
    /\ RunIdle
    /\ aiClientInstance \in BOOLEAN
    /\ fragment \in Fragments
    /\ tpc = "idle"
    /\ originalStrings = <<>>
    /\ batchStart = 0
    /\ allTranslatedStringsValidated = <<>>
    /\ responses = <<>>
    /\ batchResults = <<>>
    /\ translated = Undefined
    /\ reconstructed = FALSE
    /\ threw = FALSE

\* translateStructureInBatches(fragment, ...) up to its first request: it
\* returns at once where the translator is not initialized or the fragment
\* holds no string to send
TranslateStructureCall ==
    /\ tpc = "idle"
    /\ IF ~aiClientInstance
       THEN /\ translated' = fragment
            /\ tpc' = "returned"
            /\ UNCHANGED originalStrings
       ELSE /\ originalStrings' = collectStrings(fragment)
            /\ IF Len(collectStrings(fragment)) = 0
               THEN translated' = fragment /\ tpc' = "returned"
               ELSE translated' = translated /\ tpc' = "batches"
    /\ UNCHANGED << aiClientInstance, fragment, batchStart,
                    allTranslatedStringsValidated, responses, batchResults,
                    reconstructed, threw >>
    /\ UNCHANGED << mergeVars, runVars >>

\* The request of one batch is answered: translateBatchInternal returns,
\* the loop pushes what it returned and goes on to the next batch, or, after
\* the last batch, the strings are put into the structure.
BatchResponse ==
    /\ tpc = "batches"
    /\ \E response \in BatchResponses(Slice(originalStrings, batchStart)) :
         LET batch == Slice(originalStrings, batchStart)
             translatedBatch ==
                 translateBatchInternal(aiClientInstance, batch, response)
             all == allTranslatedStringsValidated \o translatedBatch
         IN  /\ responses' = Append(responses, response)
             /\ batchResults' = Append(batchResults, translatedBatch)
             /\ allTranslatedStringsValidated' = all
             /\ IF Len(translatedBatch) # Len(batch)
                THEN /\ translated' = fragment
                     /\ tpc' = "returned"
                     /\ UNCHANGED << batchStart, reconstructed >>
                ELSE IF batchStart + BATCH_SIZE < Len(originalStrings)
                THEN /\ batchStart' = batchStart + BATCH_SIZE
                     /\ UNCHANGED << translated, tpc, reconstructed >>
                ELSE IF Len(all) # Len(originalStrings)
                THEN /\ translated' = fragment
                     /\ tpc' = "returned"
                     /\ UNCHANGED << batchStart, reconstructed >>
                ELSE /\ translated' = reconstructStructure(fragment, all, 0).node
                     /\ reconstructed' = TRUE
                     /\ tpc' = "returned"
                     /\ UNCHANGED batchStart
    /\ UNCHANGED << aiClientInstance, fragment, originalStrings, threw >>
    /\ UNCHANGED << mergeVars, runVars >>

\* translateJsonFileContent(fragment, ...), from the call to the return
TranslateJsonFile ==
    /\ tpc = "idle"
    /\ \E response \in FileResponses(fragment) :
         /\ (aiClientInstance /\ IsContainer(fragment)) \/ response = Throws
         /\ LET r == translateJsonFileContent(aiClientInstance, fragment,
                                              response)
            IN  /\ translated' = r.value
                /\ threw' = r.threw
         /\ responses' = IF aiClientInstance /\ IsContainer(fragment)
                         THEN << response >> ELSE <<>>
    /\ tpc' = "file"
    /\ UNCHANGED << aiClientInstance, fragment, originalStrings, batchStart,
                    allTranslatedStringsValidated, batchResults,
                    reconstructed >>
    /\ UNCHANGED << mergeVars, runVars >>

NextTranslate == TranslateStructureCall \/ BatchResponse \/ TranslateJsonFile

SpecTranslate == InitTranslate /\ [][NextTranslate]_vars

(***************************************************************************)
(* runSync (syncOperations.js)                                             *)
(*                                                                         *)
(* A directory is a record: state "ok", "missing" (readdir fails with      *)
(* ENOENT) or "denied" (readdir fails otherwise), and files, which gives   *)
(* for every file name the content of the file or Absent.  The content of  *)
(* a file is the JSON value its text parses to, or Garbage for a text that *)
(* JSON.parse rejects.                                                     *)
(***************************************************************************)
Absent == Undefined
Garbage == Node("garbage", <<>>, <<>>, <<>>, <<>>)

\* the names readdir lists, in the order it lists them
FileNames == << "a.json", "b.json", "notes.txt" >>
FileNameSet == { FileNames[i] : i \in 1..Len(FileNames) }

\* dirent.isFile() && dirent.name.endsWith('.json')
IsJsonFile(name) == name \in { "a.json", "b.json" }

NoFiles == [n \in FileNameSet |-> Absent]
Dir(state, files) == [state |-> state, files |-> files]

\* the Set of names compareDirectories builds from a readable directory, in
\* insertion order
JsonFilesOf(dir) ==
    SelectSeq(FileNames, LAMBDA n : IsJsonFile(n) /\ dir.files[n] # Absent)

InSeq(s, e) == \E i \in 1..Len(s) : s[i] = e

\* Mutant: the files the target alone has are not listed for deletion.
compareDirectoriesKeepsExtras(sourceDir, targetDir, mkdirFails) ==
    LET sourceFiles == JsonFilesOf(sourceDir)
        targetFiles == IF targetDir.state = "ok" THEN JsonFilesOf(targetDir)
                       ELSE <<>>
    IN
    IF sourceDir.state # "ok"
    THEN [threw |-> TRUE, created |-> FALSE,
          filesToAdd |-> <<>>, filesToDelete |-> <<>>, filesToSync |-> <<>>]
    ELSE IF targetDir.state = "missing" /\ mkdirFails
    THEN [threw |-> TRUE, created |-> FALSE,
          filesToAdd |-> <<>>, filesToDelete |-> <<>>, filesToSync |-> <<>>]
    ELSE [threw |-> FALSE,
          created |-> targetDir.state = "missing",
          filesToAdd |->
              SelectSeq(sourceFiles, LAMBDA f : ~InSeq(targetFiles, f)),
          filesToDelete |-> <<>>,
          filesToSync |->
              SelectSeq(sourceFiles, LAMBDA f : InSeq(targetFiles, f))]

\* compareDirectories(sourceDir, targetDir, targetLang): whether it throws,
\* whether it creates the target directory, and the three lists; mkdirFails
\* tells whether fs.mkdir, if called, fails
compareDirectories(sourceDir, targetDir, mkdirFails) ==
    LET sourceFiles == JsonFilesOf(sourceDir)
        targetFiles == IF targetDir.state = "ok" THEN JsonFilesOf(targetDir)
                       ELSE <<>>
    IN
    IF sourceDir.state # "ok"
    THEN [threw |-> TRUE, created |-> FALSE,
          filesToAdd |-> <<>>, filesToDelete |-> <<>>, filesToSync |-> <<>>]
    ELSE IF targetDir.state = "missing" /\ mkdirFails
    THEN [threw |-> TRUE, created |-> FALSE,
          filesToAdd |-> <<>>, filesToDelete |-> <<>>, filesToSync |-> <<>>]
    ELSE [threw |-> FALSE,
          created |-> targetDir.state = "missing",
          filesToAdd |->
              SelectSeq(sourceFiles, LAMBDA f : ~InSeq(targetFiles, f)),
          filesToDelete |->
              SelectSeq(targetFiles, LAMBDA f : ~InSeq(sourceFiles, f)),
          filesToSync |->
              SelectSeq(sourceFiles, LAMBDA f : InSeq(targetFiles, f))]

\* JSON.parse(JSON.stringify(value)): what a written file parses to.  An
\* undefined element of an array is written as null, a property whose value
\* is undefined is left out.
RECURSIVE Stringify(_)
Stringify(value) ==
    IF value.type = "array"
    THEN Arr([i \in 1..Len(value.elems) |->
                 IF value.elems[i].type = "undefined" THEN Null
                 ELSE Stringify(value.elems[i])])
    ELSE IF value.type = "object"
    THEN LET kept == SelectSeq([i \in 1..Len(value.keys) |-> i],
                         LAMBDA i : value.vals[i].type # "undefined")
         IN  Obj([j \in 1..Len(kept) |-> value.keys[kept[j]]],
                 [j \in 1..Len(kept) |-> Stringify(value.vals[kept[j]])])
    ELSE value

\* What the service answers during a run: with `kept` every request is
\* answered with translations that keep the placeholders, without it every
\* request throws.
BatchAnswer(batch, kept) ==
    IF kept THEN Json(Arr([i \in 1..Len(batch) |-> Translate(batch[i])]))
    ELSE Throws

\* the loop over the batches of translateStructureInBatches from i on;
\* AfterBatch is the end of one turn, translatedBatch being what
\* translateBatchInternal returned for batch
RECURSIVE TranslateBatches(_, _, _, _, _)
AfterBatch(aiClient, strings, i, all, kept, batch, translatedBatch) ==
    IF Len(translatedBatch) # Len(batch)
    THEN [aborted |-> TRUE, list |-> all \o translatedBatch]
    ELSE TranslateBatches(aiClient, strings, i + BATCH_SIZE,
                          all \o translatedBatch, kept)

TranslateBatches(aiClient, strings, i, all, kept) ==
    IF i >= Len(strings) THEN [aborted |-> FALSE, list |-> all]
    ELSE AfterBatch(aiClient, strings, i, all, kept, Slice(strings, i),
             translateBatchInternal(aiClient, Slice(strings, i),
                 BatchAnswer(Slice(strings, i), kept)))

\* the end of translateStructureInBatches: r is what the loop over the
\* batches of strings left
AfterBatches(sourceStructureFragment, strings, r) ==
    IF r.aborted \/ Len(r.list) # Len(strings)
    THEN sourceStructureFragment
    ELSE reconstructStructure(sourceStructureFragment, r.list, 0).node

\* the batches of translateStructureInBatches, strings being what
\* collectStrings found
TranslateStrings(aiClient, sourceStructureFragment, strings, kept) ==
    IF Len(strings) = 0 THEN sourceStructureFragment
    ELSE AfterBatches(sourceStructureFragment, strings,
             TranslateBatches(aiClient, strings, 0, <<>>, kept))

\* translateStructureInBatches(sourceStructureFragment, ...), from the call
\* to the return
translateStructureInBatches(aiClient, sourceStructureFragment, kept) ==
    IF ~aiClient THEN sourceStructureFragment
    ELSE TranslateStrings(aiClient, sourceStructureFragment,
             collectStrings(sourceStructureFragment), kept)

\* the whole-tree translation of a run
FileAnswer(sourceJson, kept) ==
    IF kept THEN Json(TranslateTree(sourceJson, TRUE)) ELSE Throws

\* `for (const addedInfo of addedNodesCollector)`: every added fragment is
\* translated and put into finalTargetJson
RECURSIVE InjectTranslations(_, _, _, _, _)
InjectTranslations(aiClient, finalTargetJson, added, i, kept) ==
    IF i > Len(added) THEN finalTargetJson
    ELSE InjectTranslations(aiClient,
             setValueAtPath(finalTargetJson, added[i].path,
                 translateStructureInBatches(aiClient, added[i].sourceValue,
                                             kept)).obj,
             added, i + 1, kept)

\* Mutant: the merged file is written whether the merge changed it or not.
MergeOneFileWritesAlways(aiClient, translate, r, kept) ==
    LET inject == r.changesMade /\ translate /\ Len(r.added) > 0
    IN  [write |-> TRUE,
         json  |-> IF inject
                   THEN InjectTranslations(aiClient, r.updatedNode,
                                           r.added, 1, kept)
                   ELSE r.updatedNode,
         merged |-> TRUE, translator |-> inject]

\* The rest of that body once syncStructure has returned r: the added
\* fragments are translated and injected when translation is enabled.
MergeOneFile(aiClient, translate, r, kept) ==
    LET inject == r.changesMade /\ translate /\ Len(r.added) > 0
    IN  [write |-> r.changesMade,
         json  |-> IF inject
                   THEN InjectTranslations(aiClient, r.updatedNode,
                                           r.added, 1, kept)
                   ELSE r.updatedNode,
         merged |-> TRUE, translator |-> inject]

\* Mutant: a target that does not parse is always replaced by the empty
\* structure, translation enabled or not.
SyncOneFileNeverTranslates(aiClient, translate, sourceJson, targetContent, kept) ==
    IF targetContent = Garbage
    THEN [write |-> TRUE, json |-> createEmptyStructure(sourceJson),
          merged |-> FALSE, translator |-> translate]
    ELSE MergeOneFile(aiClient, translate,
             syncStructure(sourceJson, targetContent, RootPath, <<>>, <<>>),
             kept)

\* The body of the loop over filesToSync for one file, the reads and the
\* parse of the source done: whether the file is written, and with what.
SyncOneFile(aiClient, translate, sourceJson, targetContent, kept) ==
    IF targetContent = Garbage
    THEN [write |-> TRUE,
          json  |-> IF translate
                    THEN translateJsonFileContent(aiClient, sourceJson,
                             FileAnswer(sourceJson, kept)).value
                    ELSE createEmptyStructure(sourceJson),
          merged |-> FALSE, translator |-> translate]
    ELSE MergeOneFile(aiClient, translate,
             syncStructure(sourceJson, targetContent, RootPath, <<>>, <<>>),
             kept)

(***************************************************************************)
(* The inputs of a run: the language directories below baseDir, the        *)
(* languages asked for, and whether translation is enabled.                *)
(***************************************************************************)
Langs == { "en", "fr", "de" }

SourceA ==
    Obj(<< Key("a"), Key("b") >>, << Str(<< "h", "i" >>), Str(Hello) >>)
TargetASynced ==
    Obj(<< Key("a"), Key("b") >>, << Str(<< "b", "o", "n" >>), Str(BonjourName) >>)
TargetAOld ==
    Obj(<< Key("a"), Key("z") >>, << Str(<< "b", "o", "n" >>), Num(<< "1" >>) >>)
SourceB == Arr(<< Str(<< "x" >>) >>)
TargetB == Arr(<< Str(<< "X" >>) >>)
Notes == Str(<< "n" >>)

Files(a, b, notes) ==
    [n \in FileNameSet |->
        IF n = "a.json" THEN a ELSE IF n = "b.json" THEN b ELSE notes]

SourceDirs ==
    { Dir("missing", NoFiles), Dir("denied", NoFiles),
      Dir("ok", Files(SourceA, Absent, Absent)),
      Dir("ok", Files(SourceA, SourceB, Notes)),
      Dir("ok", Files(Garbage, SourceB, Absent)) }

FirstTargetDirs ==
    { Dir("missing", NoFiles), Dir("denied", NoFiles),
      Dir("ok", Files(TargetASynced, Absent, Absent)),
      Dir("ok", Files(TargetAOld, Absent, Notes)),
      Dir("ok", Files(Garbage, TargetB, Absent)),
      Dir("ok", Files(Absent, TargetB, Absent)),
      Dir("ok", Files(TargetB, Absent, Absent)) }

SecondTargetDirs ==
    { Dir("missing", NoFiles),
      Dir("ok", Files(TargetAOld, TargetB, Absent)) }

TargetLangLists == { << "fr", "de" >>, << "en", "fr" >> }

\* how many times in a row runSync is called
MaxRuns == 2

\* how many times in all the file system or the translation service fails
MaxFailures == 1

\* runSync(baseDir, sourceLang, targetLangs, enableTranslation, ...) is
\* called
InitRun ==
    /\ MergeIdle
    /\ TranslationIdle
    /\ sourceLang = "en"
    /\ targetLangs \in TargetLangLists
    /\ enableTranslation \in BOOLEAN
    /\ aiClientInstance \in BOOLEAN
    /\ enableTranslation \/ ~aiClientInstance
    /\ \E s \in SourceDirs, f \in FirstTargetDirs, d \in SecondTargetDirs :
         /\ InSeq(targetLangs, "de") \/ d.state = "missing"
         /\ dirs = [l \in Langs |->
                       IF l = "en" THEN s ELSE IF l = "fr" THEN f ELSE d]
    /\ rpc = "language"
    /\ langIndex = 1
    /\ queue = <<>>
    /\ langChangesCount = 0
    /\ totalChangesCount = 0
    /\ operations = <<>>
    /\ compared = <<>>
    /\ failedLanguages = <<>>
    /\ runNumber = 1

targetLang == targetLangs[langIndex]

FileOp(op, name) == [op |-> op, name |-> name]
FileOps(op, names) == [i \in 1..Len(names) |-> FileOp(op, names[i])]

\* What is kept of one call of compareDirectories: the run and the language,
\* the target directory as the call found it, and what the call gave.
Comparison(c, mkdirFails) ==
    [run |-> runNumber, lang |-> targetLang, target |-> dirs[targetLang],
     mkdirFailed |-> mkdirFails, threw |-> c.threw, filesToAdd |-> c.filesToAdd,
     filesToDelete |-> c.filesToDelete, filesToSync |-> c.filesToSync]

\* What is kept of one turn of a file loop: the run, the language, the loop
\* and the file; what the file system did (io) and whether the service
\* answered (kept); whether the translator was called and whether
\* syncStructure was; whether the turn reached its langChangesCount++
\* (done) and by how much the count grew; and the contents of the source
\* file and of the target file before and after the turn.
Operation(op, name, io, kept, translator, merged, done) ==
    [run |-> runNumber, lang |-> targetLang, op |-> op, name |-> name,
     io |-> io, kept |-> kept, translator |-> translator,
     merged |-> merged, done |-> done,
     counted |-> langChangesCount' - langChangesCount,
     source |-> dirs[sourceLang].files[name],
     before |-> dirs[targetLang].files[name],
     after  |-> dirs'[targetLang].files[name]]

\* how often the file system (mkdir, read, write, unlink) or the service has
\* failed so far
FailuresSoFar ==
    Cardinality({ i \in 1..Len(operations) :
                    operations[i].io # "ok" \/ ~operations[i].kept })
    + Cardinality({ i \in 1..Len(compared) : compared[i].mkdirFailed })

\* a failure is possible as long as there have been fewer than MaxFailures
MayFail(failure) == failure => FailuresSoFar < MaxFailures

\* `if (targetLang === sourceLang) continue`
RunSkipSourceLanguage ==
    /\ rpc = "language"
    /\ langIndex <= Len(targetLangs)
    /\ targetLang = sourceLang
    /\ langIndex' = langIndex + 1
    /\ UNCHANGED << rpc, runNumber, sourceLang, targetLangs,
                    enableTranslation, dirs, queue, langChangesCount,
                    totalChangesCount, operations, compared,
                    failedLanguages >>
    /\ UNCHANGED << mergeVars, translateVars >>

\* The start of the loop body for a target language: compareDirectories is
\* called.  If it throws, the catch of the loop body logs the failure and
\* the loop goes on to the next language; if no file is listed, the three
\* loops over the files are empty and the language is finished.
RunCompareDirectories ==
    /\ rpc = "language"
    /\ langIndex <= Len(targetLangs)
    /\ targetLang # sourceLang
    /\ \E mkdirFails \in BOOLEAN :
         /\ mkdirFails =>
                (dirs[sourceLang].state = "ok" /\ dirs[targetLang].state = "missing")
         /\ MayFail(mkdirFails)
         /\ LET c == compareDirectories(dirs[sourceLang], dirs[targetLang],
                                        mkdirFails)
                q == FileOps("add", c.filesToAdd)
                         \o FileOps("delete", c.filesToDelete)
                         \o FileOps("sync", c.filesToSync)
            IN  /\ compared' = Append(compared, Comparison(c, mkdirFails))
                /\ failedLanguages' = IF c.threw
                                      THEN Append(failedLanguages, targetLang)
                                      ELSE failedLanguages
                /\ dirs' = IF c.created
                           THEN [dirs EXCEPT ![targetLang] = Dir("ok", NoFiles)]
                           ELSE dirs
                /\ queue' = q
                /\ IF c.threw \/ Len(q) = 0
                   THEN langIndex' = langIndex + 1 /\ rpc' = "language"
                   ELSE langIndex' = langIndex /\ rpc' = "files"
    /\ langChangesCount' = 0
    /\ UNCHANGED << runNumber, sourceLang, targetLangs, enableTranslation,
                    totalChangesCount, operations >>
    /\ UNCHANGED << mergeVars, translateVars >>

\* The end of a turn of a file loop, as the loops see it: the next file, or,
\* after the last file of the last loop, the end of the loop body of the
\* language.  A turn ends this way whether its try block or its catch block
\* was the last to run.
FileTurnEnds ==
    /\ rpc = "files"
    /\ queue' = Tail(queue)
    /\ IF Len(queue) = 1
       THEN langIndex' = langIndex + 1 /\ rpc' = "language"
       ELSE UNCHANGED << langIndex, rpc >>

\* The same with the counts: count is langChangesCount after the turn, and
\* at the end of the loop body the operations of the language are added to
\* the total.
NextFile(count) ==
    /\ FileTurnEnds
    /\ langChangesCount' = count
    /\ totalChangesCount' = IF Len(queue) = 1
                            THEN totalChangesCount + count
                            ELSE totalChangesCount

\* Mutant: the new file is written as null, whatever targetJson is.
WriteAddedFileWritesNull(name, io, kept, parsed, targetJson) ==
    /\ io = "writeFails" => parsed
    /\ ~kept => parsed
    /\ dirs' = IF parsed /\ io = "ok"
               THEN [dirs EXCEPT ![targetLang].files[name] = Null]
               ELSE dirs
    /\ NextFile(IF parsed /\ io = "ok" THEN langChangesCount + 1
                ELSE langChangesCount)
    /\ operations' = Append(operations,
           Operation("add", name, io, kept, parsed /\ enableTranslation,
                     FALSE, parsed /\ io = "ok"))

\* The end of the body of `for (const filename of filesToAdd)`: with the
\* source read and parsed (parsed), targetJson is written.  A write can fail
\* only where there is one, and the service only where it is called.
WriteAddedFile(name, io, kept, parsed, targetJson) ==
    /\ io = "writeFails" => parsed
    /\ ~kept => parsed
    /\ dirs' = IF parsed /\ io = "ok"
               THEN [dirs EXCEPT ![targetLang].files[name] =
                        Stringify(targetJson)]
               ELSE dirs
    /\ NextFile(IF parsed /\ io = "ok" THEN langChangesCount + 1
                ELSE langChangesCount)
    /\ operations' = Append(operations,
           Operation("add", name, io, kept, parsed /\ enableTranslation,
                     FALSE, parsed /\ io = "ok"))

\* the body of `for (const filename of filesToAdd)`
RunAddFile ==
    /\ rpc = "files"
    /\ Head(queue).op = "add"
    /\ \E io \in { "ok", "readFails", "writeFails" }, kept \in BOOLEAN :
         /\ kept \/ (enableTranslation /\ aiClientInstance)
         /\ MayFail(io # "ok" \/ ~kept)
         /\ WriteAddedFile(Head(queue).name, io, kept,
                io # "readFails"
                    /\ dirs[sourceLang].files[Head(queue).name] # Garbage,
                IF enableTranslation
                THEN translateJsonFileContent(aiClientInstance,
                         dirs[sourceLang].files[Head(queue).name],
                         FileAnswer(dirs[sourceLang].files[Head(queue).name],
                                    kept)).value
                ELSE createEmptyStructure(
                         dirs[sourceLang].files[Head(queue).name]))
    /\ UNCHANGED << runNumber, sourceLang, targetLangs, enableTranslation,
                    compared, failedLanguages >>
    /\ UNCHANGED << mergeVars, translateVars >>

\* Mutant: a file that could not be deleted ends the loops of the language.
RunDeleteFileGivesUp ==
    /\ rpc = "files"
    /\ Head(queue).op = "delete"
    /\ \E io \in { "ok", "unlinkFails" } :
         /\ MayFail(io # "ok")
         /\ dirs' = IF io = "ok"
                    THEN [dirs EXCEPT ![targetLang].files[Head(queue).name] =
                             Absent]
                    ELSE dirs
         /\ IF io = "ok"
            THEN NextFile(langChangesCount + 1)
            ELSE /\ queue' = <<>>
                 /\ langChangesCount' = langChangesCount
                 /\ totalChangesCount' = totalChangesCount
                 /\ langIndex' = langIndex + 1
                 /\ rpc' = "language"
         /\ operations' = Append(operations,
                Operation("delete", Head(queue).name, io, TRUE, FALSE,
                          FALSE, io = "ok"))
    /\ UNCHANGED << runNumber, sourceLang, targetLangs, enableTranslation,
                    compared, failedLanguages >>
    /\ UNCHANGED << mergeVars, translateVars >>

\* the body of `for (const filename of filesToDelete)`
RunDeleteFile ==
    /\ rpc = "files"
    /\ Head(queue).op = "delete"
    /\ \E io \in { "ok", "unlinkFails" } :
         /\ MayFail(io # "ok")
         /\ dirs' = IF io = "ok"
                    THEN [dirs EXCEPT ![targetLang].files[Head(queue).name] =
                             Absent]
                    ELSE dirs
         /\ NextFile(IF io = "ok" THEN langChangesCount + 1
                     ELSE langChangesCount)
         /\ operations' = Append(operations,
                Operation("delete", Head(queue).name, io, TRUE, FALSE,
                          FALSE, io = "ok"))
    /\ UNCHANGED << runNumber, sourceLang, targetLangs, enableTranslation,
                    compared, failedLanguages >>
    /\ UNCHANGED << mergeVars, translateVars >>

\* Mutant: the merged file is written to sourceFilePath.
WriteSyncedFileToSource(name, io, kept, parsed, r) ==
    /\ io = "writeFails" => parsed /\ r.write
    /\ ~kept => parsed /\ r.translator
    /\ dirs' = IF parsed /\ io = "ok" /\ r.write
               THEN [dirs EXCEPT ![sourceLang].files[name] =
                        Stringify(r.json)]
               ELSE dirs
    /\ NextFile(IF parsed /\ io = "ok" /\ r.write THEN langChangesCount + 1
                ELSE langChangesCount)
    /\ operations' = Append(operations,
           Operation("sync", name, io, kept, parsed /\ r.translator,
                     parsed /\ r.merged, parsed /\ io = "ok" /\ r.write))

\* The end of the body of `for (const filename of filesToSync)`: with the
\* files read and the source parsed (parsed) and the outcome r of the rest
\* of the body, the file is written when r.write.
WriteSyncedFile(name, io, kept, parsed, r) ==
    /\ io = "writeFails" => parsed /\ r.write
    /\ ~kept => parsed /\ r.translator
    /\ dirs' = IF parsed /\ io = "ok" /\ r.write
               THEN [dirs EXCEPT ![targetLang].files[name] =
                        Stringify(r.json)]
               ELSE dirs
    /\ NextFile(IF parsed /\ io = "ok" /\ r.write THEN langChangesCount + 1
                ELSE langChangesCount)
    /\ operations' = Append(operations,
           Operation("sync", name, io, kept, parsed /\ r.translator,
                     parsed /\ r.merged, parsed /\ io = "ok" /\ r.write))

\* the body of `for (const filename of filesToSync)`
RunSyncFile ==
    /\ rpc = "files"
    /\ Head(queue).op = "sync"
    /\ \E io \in { "ok", "readFails", "writeFails" }, kept \in BOOLEAN :
         /\ kept \/ (enableTranslation /\ aiClientInstance)
         /\ MayFail(io # "ok" \/ ~kept)
         /\ WriteSyncedFile(Head(queue).name, io, kept,
                io # "readFails"
                    /\ dirs[sourceLang].files[Head(queue).name] # Garbage,
                SyncOneFile(aiClientInstance, enableTranslation,
                            dirs[sourceLang].files[Head(queue).name],
                            dirs[targetLang].files[Head(queue).name], kept))
    /\ UNCHANGED << runNumber, sourceLang, targetLangs, enableTranslation,
                    compared, failedLanguages >>
    /\ UNCHANGED << mergeVars, translateVars >>

\* the loop over the languages is over: runSync logs the total and returns
RunComplete ==
    /\ rpc = "language"
    /\ langIndex > Len(targetLangs)
    /\ rpc' = "done"
    /\ UNCHANGED << runNumber, sourceLang, targetLangs, enableTranslation,
                    dirs, langIndex, queue, langChangesCount,
                    totalChangesCount, operations, compared,
                    failedLanguages >>
    /\ UNCHANGED << mergeVars, translateVars >>

\* runSync is called a second time with the same arguments, on the
\* directories as the first run left them
RunAgain ==
    /\ rpc = "done"
    /\ runNumber < MaxRuns
    /\ runNumber' = runNumber + 1
    /\ rpc' = "language"
    /\ langIndex' = 1
    /\ queue' = <<>>
    /\ langChangesCount' = 0
    /\ totalChangesCount' = 0
    /\ UNCHANGED << sourceLang, targetLangs, enableTranslation, dirs,
                    operations, compared, failedLanguages >>
    /\ UNCHANGED << mergeVars, translateVars >>

\* the steps of runSync itself
RunStep ==
    \/ RunSkipSourceLanguage
    \/ RunCompareDirectories
    \/ RunAddFile
    \/ RunDeleteFile
    \/ RunSyncFile
    \/ RunComplete

NextRun == RunStep \/ RunAgain

SpecRun == InitRun /\ [][NextRun]_vars

\* runSync is one async function: once called, the event loop runs it on
\* until it returns.  Every await of a turn of a file loop settles, so the
\* turn ends; and the steps between the turns are taken.
LoopStep == RunSkipSourceLanguage \/ RunCompareDirectories \/ RunComplete

SpecRunFair ==
    /\ SpecRun
    /\ WF_vars(LoopStep)
    /\ WF_<< rpc, langIndex, queue >>(FileTurnEnds)




(***************************************************************************)
(* Reading a tree by steps, for the properties below                       *)
(***************************************************************************)
Merged == syncResult.updatedNode

\* whether following the steps from node stays inside the tree
RECURSIVE Reaches(_, _)
Reaches(node, steps) ==
    IF Len(steps) = 0 THEN TRUE
    ELSE IF steps[1].kind = "key"
    THEN /\ node.type = "object"
         /\ HasOwn(node, steps[1].name)
         /\ Reaches(GetOwn(node, steps[1].name), Tail(steps))
    ELSE /\ node.type = "array"
         /\ ToNum(steps[1].name) < Len(node.elems)
         /\ Reaches(node.elems[ToNum(steps[1].name) + 1], Tail(steps))

\* the node the steps lead to (Undefined when they leave the tree)
RECURSIVE Lookup(_, _)
Lookup(node, steps) ==
    IF Len(steps) = 0 THEN node
    ELSE IF ~Reaches(node, << steps[1] >>) THEN Undefined
    ELSE IF steps[1].kind = "key"
    THEN Lookup(GetOwn(node, steps[1].name), Tail(steps))
    ELSE Lookup(node.elems[ToNum(steps[1].name) + 1], Tail(steps))

\* node with the subtree at steps replaced by v (steps must reach it)
RECURSIVE ReplaceAt(_, _, _)
ReplaceAt(node, steps, v) ==
    IF Len(steps) = 0 THEN v
    ELSE IF steps[1].kind = "key"
    THEN SetOwn(node, steps[1].name,
                ReplaceAt(GetOwn(node, steps[1].name), Tail(steps), v))
    ELSE [node EXCEPT !.elems[ToNum(steps[1].name) + 1] =
             ReplaceAt(node.elems[ToNum(steps[1].name) + 1], Tail(steps), v)]

\* the path string syncStructure builds for the steps
RECURSIVE RenderPath(_, _)
RenderPath(prefix, steps) ==
    IF Len(steps) = 0 THEN prefix
    ELSE IF steps[1].kind = "key"
    THEN RenderPath(KeyPath(prefix, steps[1].name), Tail(steps))
    ELSE RenderPath(IndexPath(prefix, ToNum(steps[1].name)), Tail(steps))

KeySet(o) == { o.keys[i] : i \in 1..Len(o.keys) }

\* The steps of a record are where its sourceValue sits in the source, and
\* its path is the string built for those steps.
StepsAreSourcePlaces ==
    \A i \in 1..Len(addedNodes) :
        /\ Reaches(source, addedNodes[i].steps)
        /\ Lookup(source, addedNodes[i].steps) = addedNodes[i].sourceValue
        /\ addedNodes[i].path = RenderPath(RootPath, addedNodes[i].steps)

(***************************************************************************)
(* C1: merging the source a second time, with the merged tree as target,   *)
(* returns a tree equal to the merged tree, reports changesMade = false    *)
(* and appends no record.                                                  *)
(***************************************************************************)
C1_MergeIdempotent ==
    pc = "resynced" =>
        /\ resyncResult.updatedNode = Merged
        /\ resyncResult.changesMade = FALSE
        /\ resyncAdded = <<>>

\* the first merge added a key and kept another; the second has run
C1_Witness ==
    /\ pc = "resynced"
    /\ syncResult.changesMade
    /\ Len(addedNodes) > 0
    /\ source.type = "object" /\ target.type = "object"
    /\ \E k \in KeySet(target) : HasOwn(source, k)
    /\ Merged # target
    /\ resyncResult.updatedNode = Merged

(***************************************************************************)
(* C2: wherever the source has a container, the merged tree has a          *)
(* container of the same kind with the same key set (object) or length     *)
(* (array), and the merged tree has no key or index the source lacks.      *)
(***************************************************************************)
RECURSIVE SameShape(_, _)
SameShape(s, m) ==
    IF s.type = "object"
    THEN /\ m.type = "object"
         /\ KeySet(m) = KeySet(s)
         /\ Len(m.keys) = Len(s.keys)
         /\ \A i \in 1..Len(s.keys) : SameShape(s.vals[i], GetOwn(m, s.keys[i]))
    ELSE IF s.type = "array"
    THEN /\ m.type = "array"
         /\ Len(m.elems) = Len(s.elems)
         /\ \A i \in 1..Len(s.elems) : SameShape(s.elems[i], m.elems[i])
    ELSE ~IsContainer(m)

C2_StructuralConvergence ==
    pc = "synced" => SameShape(source, Merged)

\* an object merge that had a key to add, a key to remove and a container
\* below a shared key
C2_Witness ==
    /\ pc = "synced"
    /\ source.type = "object" /\ target.type = "object"
    /\ \E k \in KeySet(source) : ~HasOwn(target, k)
    /\ \E k \in KeySet(target) : ~HasOwn(source, k)
    /\ SameShape(source, Merged)

(***************************************************************************)
(* C3: a scalar leaf that the source and the target both have, at the same *)
(* path through containers of the same kinds and with the same primitive   *)
(* type, holds in the merged tree the value the target had.                *)
(***************************************************************************)
RECURSIVE TargetLeavesKept(_, _, _)
TargetLeavesKept(s, t, m) ==
    IF s.type = "object" /\ t.type = "object"
    THEN /\ m.type = "object"
         /\ \A k \in KeySet(s) \cap KeySet(t) :
               /\ HasOwn(m, k)
               /\ TargetLeavesKept(GetOwn(s, k), GetOwn(t, k), GetOwn(m, k))
    ELSE IF s.type = "array" /\ t.type = "array"
    THEN /\ m.type = "array"
         /\ \A i \in 1..Min(Len(s.elems), Len(t.elems)) :
               /\ i <= Len(m.elems)
               /\ TargetLeavesKept(s.elems[i], t.elems[i], m.elems[i])
    ELSE IF ~IsContainer(s) /\ s.type = t.type
    THEN m = t
    ELSE TRUE

C3_ValuePreservation ==
    pc = "synced" => TargetLeavesKept(source, target, Merged)

\* a string leaf below a shared key whose source and target texts differ,
\* in a merge that changed the tree
C3_Witness ==
    /\ pc = "synced"
    /\ syncResult.changesMade
    /\ source.type = "object" /\ target.type = "object"
    /\ \E k \in KeySet(source) \cap KeySet(target) :
          /\ GetOwn(source, k).type = "string"
          /\ GetOwn(target, k).type = "string"
          /\ GetOwn(source, k) # GetOwn(target, k)
          /\ GetOwn(target, k) # Str(<<>>)
          /\ GetOwn(Merged, k) = GetOwn(target, k)

(***************************************************************************)
(* C4: for every record appended by the merge, following the record's key  *)
(* and index steps in the merged tree reaches a value equal to             *)
(* createEmptyStructure(sourceValue).                                      *)
(***************************************************************************)
C4_AddedRecordComplete ==
    pc = "synced" =>
        /\ StepsAreSourcePlaces
        /\ \A i \in 1..Len(addedNodes) :
              /\ Reaches(Merged, addedNodes[i].steps)
              /\ Lookup(Merged, addedNodes[i].steps)
                    = createEmptyStructure(addedNodes[i].sourceValue)

\* a record two steps below the root whose sourceValue holds a string
C4_Witness ==
    /\ pc = "synced"
    /\ \E i \in 1..Len(addedNodes) :
          /\ Len(addedNodes[i].steps) >= 2
          /\ addedNodes[i].sourceValue.type = "string"
          /\ addedNodes[i].sourceValue # Str(<<>>)
          /\ Lookup(Merged, addedNodes[i].steps) = Str(<<>>)

(***************************************************************************)
(* C5: after setValueAtPath(merged, path, X) for an added record, the      *)
(* merged tree holds X at the place the record's steps denote, the place   *)
(* where sourceValue sits in the source; this for any keys and for a       *)
(* record with path 'root'.                                                *)
(***************************************************************************)
InjectedRecord == addedNodes[injected.record]

C5_RoundTripReinjection ==
    pc = "injected" =>
        /\ Reaches(injected.obj, InjectedRecord.steps)
        /\ Lookup(injected.obj, InjectedRecord.steps) = injected.value

(***************************************************************************)
(* C6: setValueAtPath(merged, path, X) for an added record never takes an  *)
(* overwrite branch, and leaves every node of the merged tree outside the  *)
(* subtree at the record's place unchanged.                                *)
(***************************************************************************)
C6_ReinjectionLocal ==
    pc = "injected" =>
        /\ ~injected.overwrote
        /\ injected.obj = ReplaceAt(Merged, InjectedRecord.steps,
                              Lookup(injected.obj, InjectedRecord.steps))

(***************************************************************************)
(* C7: where the types of source and target differ: if one of them is an   *)
(* object or an array, the result is createEmptyStructure(source),         *)
(* changesMade is true and exactly one record {path, source} is appended   *)
(* (nothing below the node is visited); otherwise the target is returned   *)
(* unchanged, changesMade is false and no record is appended.              *)
(***************************************************************************)
TypesDiffer == TypeOf(source) # TypeOf(target)
EitherIsContainer == IsContainer(source) \/ IsContainer(target)

C7_TypeMismatchStep ==
    (pc = "synced" /\ TypesDiffer) =>
        IF EitherIsContainer
        THEN /\ Merged = createEmptyStructure(source)
             /\ syncResult.changesMade = TRUE
             /\ Len(addedNodes) = 1
             /\ addedNodes[1].path = RootPath
             /\ addedNodes[1].sourceValue = source
        ELSE /\ Merged = target
             /\ syncResult.changesMade = FALSE
             /\ addedNodes = <<>>

\* a scalar source against a container target with content: the container
\* side is the target alone, and the replacement is not the target
C7_Witness ==
    /\ pc = "synced"
    /\ source.type = "string" /\ source # Str(<<>>)
    /\ target.type = "object" /\ Len(target.keys) > 0
    /\ Merged = Str(<<>>)
    /\ Len(addedNodes) = 1

(***************************************************************************)
(* C8: scenario C: source {"a": {"x": 1}} and target {"a": "oops"} give    *)
(* the merged tree {"a": {"x": ""}} and the added list                     *)
(* [{path: "root.a", sourceValue: {"x": 1}}].                              *)
(* As amended: the merged tree is {"a": {"x": 1}}, the number being kept.  *)
(***************************************************************************)
ScenarioCSource ==
    Obj(<< Key("a") >>, << Obj(<< Key("x") >>, << Num(<< "1" >>) >>) >>)
ScenarioCTarget == Obj(<< Key("a") >>, << Str(Oops) >>)
ScenarioCRan ==
    pc = "synced" /\ source = ScenarioCSource /\ target = ScenarioCTarget
ScenarioCAdded ==
    /\ Len(addedNodes) = 1
    /\ addedNodes[1].path = << "r", "o", "o", "t", ".", "a" >>
    /\ addedNodes[1].sourceValue = Obj(<< Key("x") >>, << Num(<< "1" >>) >>)

\* the claim as stated
C8_ScenarioC_Stated ==
    ScenarioCRan =>
        /\ Merged = Obj(<< Key("a") >>, << Obj(<< Key("x") >>, << Str(<<>>) >>) >>)
        /\ ScenarioCAdded

\* the claim as amended
C8_ScenarioC ==
    ScenarioCRan =>
        /\ Merged = Obj(<< Key("a") >>, << Obj(<< Key("x") >>, << Num(<< "1" >>) >>) >>)
        /\ ScenarioCAdded

C8_Witness == ScenarioCRan /\ syncResult.changesMade

(***************************************************************************)
(* C9: merging a source array of length m with a target array of length n: *)
(* the merged array has length m; element i < min(m, n) is the merge of    *)
(* source[i] with target[i]; element i with n <= i < m is                  *)
(* createEmptyStructure(source[i]) and a record with path '<path>[i]' and  *)
(* sourceValue source[i] is appended, in increasing i; target elements at  *)
(* i >= m are dropped; changesMade is true whenever m differs from n.      *)
(***************************************************************************)
\* the records appended for the elements past the end of the target array
TopRecords ==
    SelectSeq(addedNodes,
              LAMBDA r : /\ Len(r.steps) = 1
                         /\ ToNum(r.steps[1].name) >= Len(target.elems))

C9_ArrayMergePositional ==
    (pc = "synced" /\ source.type = "array" /\ target.type = "array") =>
        LET m == Len(source.elems)
            n == Len(target.elems)
        IN  /\ Merged.type = "array"
            /\ Len(Merged.elems) = m
            /\ \A i \in 0..(Min(m, n) - 1) :
                  Merged.elems[i + 1] =
                      syncStructure(source.elems[i + 1], target.elems[i + 1],
                          IndexPath(RootPath, i), << IndexStep(i) >>,
                          <<>>).updatedNode
            /\ \A i \in n..(m - 1) :
                  Merged.elems[i + 1] = createEmptyStructure(source.elems[i + 1])
            /\ Len(TopRecords) = Max(m - n, 0)
            /\ \A j \in 1..Len(TopRecords) :
                  /\ TopRecords[j].path =
                        RootPath \o << "[" >> \o ToStr(n + j - 1) \o << "]" >>
                  /\ TopRecords[j].sourceValue = source.elems[n + j]
            /\ (m # n => syncResult.changesMade)

\* a longer source: a shared element whose target value is kept and an
\* appended element that holds a string
C9_Witness ==
    /\ pc = "synced"
    /\ source.type = "array" /\ target.type = "array"
    /\ Len(target.elems) >= 1
    /\ Len(source.elems) > Len(target.elems)
    /\ source.elems[1] # target.elems[1]
    /\ Merged.elems[1] = target.elems[1]
    /\ source.elems[Len(source.elems)].type = "string"
    /\ source.elems[Len(source.elems)] # Str(<<>>)
    /\ Len(TopRecords) >= 1

(***************************************************************************)
(* C10: when every key and index of the source exists in the target with   *)
(* a matching type and the target has keys or elements the source lacks,   *)
(* changesMade is true, no record is appended and the merged tree is the   *)
(* target with exactly those extras removed.                               *)
(***************************************************************************)
\* every key and index of s exists in t, with the same type
RECURSIVE CoveredBy(_, _)
CoveredBy(s, t) ==
    /\ s.type = t.type
    /\ s.type = "object" =>
          \A k \in KeySet(s) : HasOwn(t, k) /\ CoveredBy(GetOwn(s, k), GetOwn(t, k))
    /\ s.type = "array" =>
          /\ Len(s.elems) <= Len(t.elems)
          /\ \A i \in 1..Len(s.elems) : CoveredBy(s.elems[i], t.elems[i])

\* t has a key or an element that s lacks, at some place they share
RECURSIVE HasExtras(_, _)
HasExtras(s, t) ==
    \/ /\ s.type = "object" /\ t.type = "object"
       /\ \/ \E k \in KeySet(t) : ~HasOwn(s, k)
          \/ \E k \in KeySet(t) \cap KeySet(s) : HasExtras(GetOwn(s, k), GetOwn(t, k))
    \/ /\ s.type = "array" /\ t.type = "array"
       /\ \/ Len(t.elems) > Len(s.elems)
          \/ \E i \in 1..Min(Len(s.elems), Len(t.elems)) :
                HasExtras(s.elems[i], t.elems[i])

\* t without the keys and elements s lacks
RECURSIVE WithoutExtras(_, _)
WithoutExtras(s, t) ==
    IF s.type = "object" /\ t.type = "object"
    THEN LET kept == SelectSeq(t.keys, LAMBDA k : HasOwn(s, k))
         IN  Obj(kept, [i \in 1..Len(kept) |->
                           WithoutExtras(GetOwn(s, kept[i]), GetOwn(t, kept[i]))])
    ELSE IF s.type = "array" /\ t.type = "array"
    THEN Arr([i \in 1..Min(Len(s.elems), Len(t.elems)) |->
                 WithoutExtras(s.elems[i], t.elems[i])])
    ELSE t

C10_RemovalOnly ==
    (pc = "synced" /\ CoveredBy(source, target) /\ HasExtras(source, target)) =>
        /\ syncResult.changesMade = TRUE
        /\ addedNodes = <<>>
        /\ Merged = WithoutExtras(source, target)

\* scenario D: source {"k": "v"}, target {"k": "v", "o": 1}, merged {"k": "v"}
C10_Witness ==
    /\ pc = "synced"
    /\ source = Obj(<< Key("k") >>, << Str(<< "v" >>) >>)
    /\ target = Obj(<< Key("k"), Key("o") >>, << Str(<< "v" >>), Num(<< "1" >>) >>)
    /\ Merged = Obj(<< Key("k") >>, << Str(<< "v" >>) >>)
    /\ syncResult.changesMade
    /\ addedNodes = <<>>

(***************************************************************************)
(* C11: createEmptyStructure(v) returns a value with the keys of v in the  *)
(* same order and the array lengths of v, whose string leaves are all ""   *)
(* and whose number, boolean and null leaves are those of v; the call      *)
(* leaves v as it was.                                                     *)
(***************************************************************************)
RECURSIVE Emptied(_, _)
Emptied(v, e) ==
    /\ e.type = v.type
    /\ CASE v.type = "object" ->
              /\ e.keys = v.keys
              /\ \A i \in 1..Len(v.keys) : Emptied(v.vals[i], e.vals[i])
         [] v.type = "array" ->
              /\ Len(e.elems) = Len(v.elems)
              /\ \A i \in 1..Len(v.elems) : Emptied(v.elems[i], e.elems[i])
         [] v.type = "string" -> e.val = <<>>
         [] OTHER -> e = v

\* every cell the call was given is as it was
CellsKept ==
    /\ Len(heapAfter) >= Len(heapBefore)
    /\ \A a \in 1..Len(heapBefore) : heapAfter[a] = heapBefore[a]

C11_EmptyStructure ==
    pc = "emptied" =>
        /\ Emptied(source, Fetch(heapAfter, heapResult.updatedNode))
        /\ Fetch(heapAfter, heapResult.updatedNode) = createEmptyStructure(source)
        /\ CellsKept
        /\ Fetch(heapAfter, heapResult.source) = source

\* an object with a string leaf and a leaf that is no string has been emptied
C11_Witness ==
    /\ pc = "emptied"
    /\ source.type = "object"
    /\ \E i \in 1..Len(source.vals) :
         source.vals[i].type = "string" /\ source.vals[i].val # <<>>
    /\ \E i \in 1..Len(source.vals) :
         source.vals[i].type \in {"number", "boolean", "null"}

(***************************************************************************)
(* C12: syncStructure(S, T) leaves S and T as they were: no cell of either *)
(* is written, and what the call returns is the merged tree and the        *)
(* records appended to the collector.                                      *)
(***************************************************************************)
C12_SyncStructurePure ==
    pc = "heapsynced" =>
        /\ CellsKept
        /\ Fetch(heapAfter, heapResult.source) = source
        /\ Fetch(heapAfter, heapResult.target) = target
        /\ LET r == syncStructure(source, target, RootPath, <<>>, <<>>) IN
           /\ Fetch(heapAfter, heapResult.updatedNode) = r.updatedNode
           /\ heapResult.changesMade = r.changesMade
           /\ Len(heapResult.added) = Len(r.added)
           /\ \A i \in 1..Len(r.added) :
                /\ heapResult.added[i].path = r.added[i].path
                /\ Fetch(heapAfter, heapResult.added[i].sourceValue)
                       = r.added[i].sourceValue

\* two objects were merged: a key was added, a key was removed
C12_Witness ==
    /\ pc = "heapsynced"
    /\ source.type = "object" /\ target.type = "object"
    /\ \E i \in 1..Len(source.keys) : ~HasOwn(target, source.keys[i])
    /\ \E i \in 1..Len(target.keys) : ~HasOwn(source, target.keys[i])
    /\ heapResult.changesMade

(***************************************************************************)
(* Reading a translation run, for the properties below                     *)
(***************************************************************************)
\* the strings of batch b, b from 1
BatchTexts(b) == Slice(originalStrings, (b - 1) * BATCH_SIZE)

\* the batch and the place in it of the k-th collected string, k from 1
BatchOf(k) == ((k - 1) \div BATCH_SIZE) + 1
PlaceInBatch(k) == ((k - 1) % BATCH_SIZE) + 1

\* the answer to the request of batch b was a list of as many items as the
\* batch has strings
Answered(b) ==
    /\ responses[b].kind = "json"
    /\ responses[b].value.type = "array"
    /\ Len(responses[b].value.elems) = Len(BatchTexts(b))

\* the answer to the request of batch b was a list of another length
WrongLength(b) ==
    /\ responses[b].kind = "json"
    /\ responses[b].value.type = "array"
    /\ Len(responses[b].value.elems) # Len(BatchTexts(b))

\* the leaves of a tree in pre-order, and the tree without its leaves
RECURSIVE Leaves(_)
RECURSIVE LeavesOf(_, _, _)
LeavesOf(nodes, lo, hi) ==
    IF lo > hi THEN <<>>
    ELSE IF lo = hi THEN Leaves(nodes[lo])
    ELSE LeavesOf(nodes, lo, (lo + hi) \div 2)
             \o LeavesOf(nodes, (lo + hi) \div 2 + 1, hi)

Leaves(node) ==
    IF node.type = "array" THEN LeavesOf(node.elems, 1, Len(node.elems))
    ELSE IF node.type = "object" THEN LeavesOf(node.vals, 1, Len(node.vals))
    ELSE << node >>

RECURSIVE Skeleton(_)
Skeleton(node) ==
    IF node.type = "array"
    THEN Arr([i \in 1..Len(node.elems) |-> Skeleton(node.elems[i])])
    ELSE IF node.type = "object"
    THEN Obj(node.keys, [i \in 1..Len(node.keys) |-> Skeleton(node.vals[i])])
    ELSE Null

\* the placeholder tokens of a value, as a set
Tokens(text) ==
    IF text.type # "string" THEN {}
    ELSE LET m == MatchAll(text.val, 1, <<>>) IN { m[i] : i \in 1..Len(m) }

(***************************************************************************)
(* C13: when the translation of one batch of a fragment fails (the request *)
(* throws, the response is empty, does not parse, is no list or is a list  *)
(* of another length), translateStructureInBatches returns the fragment    *)
(* with no string translated, whatever the other batches gave.             *)
(***************************************************************************)
C13_NoPartialTranslation ==
    (tpc = "returned" /\ \E b \in 1..Len(responses) : ~Answered(b))
        => translated = fragment

(***************************************************************************)
(* C14: when the answer for some batch is a list whose length is not the   *)
(* batch's, translateStructureInBatches returns the fragment unchanged and *)
(* does not reconstruct.                                                   *)
(***************************************************************************)
C14_BatchSafety ==
    (tpc = "returned" /\ \E b \in 1..Len(responses) : WrongLength(b))
        => (translated = fragment /\ ~reconstructed)

(***************************************************************************)
(* C15: translateStructureInBatches returns a tree of the fragment's shape *)
(* whose k-th string leaf that is not blank, in pre-order, holds place     *)
(* (k-1) mod BATCH_SIZE of what batch ceil(k / BATCH_SIZE) returned, and   *)
(* whose other leaves are the fragment's.                                  *)
(***************************************************************************)
C15_PositionalReinjection ==
    (tpc = "returned" /\ aiClientInstance) =>
        LET sourceLeaves == Leaves(fragment)
            resultLeaves == Leaves(translated)
        IN  /\ Skeleton(translated) = Skeleton(fragment)
            /\ Len(resultLeaves) = Len(sourceLeaves)
            /\ \A j \in 1..Len(sourceLeaves) :
                 IF IsValidText(sourceLeaves[j])
                 THEN LET k == ValidRank(sourceLeaves, j)
                      IN  /\ BatchOf(k) <= Len(batchResults)
                          /\ resultLeaves[j] =
                                 batchResults[BatchOf(k)][PlaceInBatch(k)]
                 ELSE resultLeaves[j] = sourceLeaves[j]

\* a fragment of more strings than one batch holds, among other values, was
\* translated in two answered batches
C15_Witness ==
    /\ tpc = "returned"
    /\ fragment = LongObject
    /\ Len(originalStrings) > BATCH_SIZE
    /\ Len(batchResults) = 2
    /\ Answered(1) /\ Answered(2)
    /\ batchResults[2][PlaceInBatch(Len(originalStrings))]
           = Translate(originalStrings[Len(originalStrings)])

(***************************************************************************)
(* C16: in an answered batch, the result at a place is the translated      *)
(* string where comparePlaceholders(source, translated) is true and the    *)
(* source string where it is false, whatever happens at the other places.  *)
(***************************************************************************)
C16_PerStringGuard ==
    \A b \in 1..Len(batchResults) :
        Answered(b) =>
            /\ Len(batchResults[b]) = Len(BatchTexts(b))
            /\ \A i \in 1..Len(BatchTexts(b)) :
                 LET translatedString ==
                         OrEmptyString(responses[b].value.elems[i])
                 IN  batchResults[b][i] =
                         IF comparePlaceholders(BatchTexts(b)[i],
                                                translatedString)
                         THEN translatedString
                         ELSE BatchTexts(b)[i]

\* a batch in which one string was put back and another was translated
C16_Witness ==
    \E b \in 1..Len(batchResults) :
        /\ Answered(b)
        /\ \E i, j \in 1..Len(BatchTexts(b)) :
             /\ ~comparePlaceholders(BatchTexts(b)[i],
                    OrEmptyString(responses[b].value.elems[i]))
             /\ batchResults[b][i] = BatchTexts(b)[i]
             /\ batchResults[b][j] # BatchTexts(b)[j]
             /\ batchResults[b][j] = responses[b].value.elems[j]

(***************************************************************************)
(* C17: comparePlaceholders(source, candidate) is true exactly when the    *)
(* source has no placeholder token or the set of tokens of the source is   *)
(* the set of tokens of the candidate; it is true for                      *)
(* ("Hello {{name}}", "Bonjour {{name}}") and false for                    *)
(* ("Hello {{name}}", "Bonjour").                                          *)
(***************************************************************************)
\* the pairs of strings a run has compared
ComparedPairs ==
    UNION { { << BatchTexts(b)[i], OrEmptyString(responses[b].value.elems[i]) >> :
                i \in 1..Len(BatchTexts(b)) } :
            b \in { c \in 1..Len(batchResults) : Answered(c) } }
    \cup (IF tpc = "file" THEN validateStructurePlaceholders(fragment, translated)
          ELSE {})

C17_ComparePlaceholders ==
    /\ \A p \in ComparedPairs :
         comparePlaceholders(p[1], p[2])
             <=> (Tokens(p[1]) = {} \/ Tokens(p[1]) = Tokens(p[2]))
    /\ comparePlaceholders(Str(Hello), Str(BonjourName))
    /\ ~comparePlaceholders(Str(Hello), Str(Bonjour))

\* a source that repeats a token was compared with a candidate that has it
\* once, and the pairs of the two examples were compared
C17_Witness ==
    /\ << Str(TwiceN), Str(OnceN) >> \in ComparedPairs
    /\ << Str(PercentThenId), Str(IdThenPercent) >> \in ComparedPairs

(***************************************************************************)
(* C18 as stated: in every caller of comparePlaceholders, also in          *)
(* translateJsonFileContent, a translated string whose placeholders do not *)
(* match its source is replaced by the source string in the returned tree. *)
(***************************************************************************)
FileAnswered ==
    /\ tpc = "file"
    /\ Len(responses) = 1
    /\ responses[1].kind = "json"
    /\ IsContainer(responses[1].value)

C18_MismatchFallsBack_Stated ==
    /\ FileAnswered =>
           translated = RevertMismatches(fragment, responses[1].value)
    /\ tpc = "returned" =>
           \A p \in validateStructurePlaceholders(fragment, translated) :
               comparePlaceholders(p[1], p[2])

(***************************************************************************)
(* C18: a translated string whose placeholders do not match its source is  *)
(* replaced by the source string in batch translation only; whole-tree     *)
(* translation compares the placeholders for the log and returns the       *)
(* parsed response as it is.                                               *)
(***************************************************************************)
C18_MismatchFallsBack ==
    /\ FileAnswered => translated = responses[1].value
    /\ tpc = "returned" =>
           \A p \in validateStructurePlaceholders(fragment, translated) :
               comparePlaceholders(p[1], p[2])

\* whole-tree translation returned a string whose placeholders do not match
C18_Witness ==
    /\ FileAnswered
    /\ \E p \in validateStructurePlaceholders(fragment, translated) :
         ~comparePlaceholders(p[1], p[2])

(***************************************************************************)
(* C19: translateJsonFileContent returns createEmptyStructure(source) when *)
(* the translator is not initialized, the input is no object or array, the *)
(* request throws, the response text is empty or does not parse, or the    *)
(* parsed response is no object or array; no exception leaves it.          *)
(***************************************************************************)
C19_FileTranslationFailsClosed ==
    tpc = "file" =>
        /\ ~threw
        /\ ~FileAnswered => translated = createEmptyStructure(fragment)

\* the request of an object with a string in it threw
C19_Witness ==
    /\ tpc = "file"
    /\ aiClientInstance
    /\ IsContainer(fragment)
    /\ responses = << Throws >>
    /\ \E i \in 1..Len(Leaves(fragment)) : IsValidText(Leaves(fragment)[i])
    /\ translated # fragment

(***************************************************************************)
(* C20: when the directory of the source language cannot be read, runSync  *)
(* does not complete normally, and after the first language for which the  *)
(* directory could not be read no further language is processed.           *)
(***************************************************************************)
C20_SourceDirectoryFatal ==
    dirs[sourceLang].state # "ok" =>
        /\ rpc # "done"
        /\ Len(compared) <= 1

\* deep equality of two JSON values: the same type and value, the same
\* elements in the same order, the same keys (in any order) with deep-equal
\* values
RECURSIVE DeepEqual(_, _)
DeepEqual(a, b) ==
    /\ a.type = b.type
    /\ a.val = b.val
    /\ Len(a.elems) = Len(b.elems)
    /\ \A i \in 1..Len(a.elems) : DeepEqual(a.elems[i], b.elems[i])
    /\ KeySet(a) = KeySet(b)
    /\ \A k \in KeySet(a) : DeepEqual(GetOwn(a, k), GetOwn(b, k))

(***************************************************************************)
(* C28: syncStructure(S, T) returns changesMade = false if and only if the *)
(* merged tree is deep-equal to T, and a call that appended a record to    *)
(* the added list returns changesMade = true.                              *)
(***************************************************************************)
C28_ChangedFlagExact ==
    pc = "synced" =>
        /\ syncResult.changesMade = FALSE <=> DeepEqual(Merged, target)
        /\ Len(addedNodes) > 0 => syncResult.changesMade = TRUE


\* a merge of two containers that appended a record and changed the tree
C28_Witness ==
    /\ pc = "synced"
    /\ IsContainer(source)
    /\ IsContainer(target)
    /\ syncResult.changesMade
    /\ Len(addedNodes) > 0
    /\ ~DeepEqual(Merged, target)

SyncTurn(i) ==
    /\ operations[i].op = "sync"
    /\ operations[i].io = "ok"
    /\ operations[i].source # Garbage

\* what the service gives for a whole tree when it answers: every string
\* that is not blank translated, the placeholders kept
WholeTreeTranslation(sourceJson) == TranslateTree(sourceJson, TRUE)

(***************************************************************************)
(* C21: a file of filesToSync whose target text does not parse is not      *)
(* merged; it is overwritten with createEmptyStructure(source) when        *)
(* translation is disabled and with what the whole-tree translation of the *)
(* source returns when it is enabled (the translated tree when the service *)
(* answers, the empty structure when it does not), and the operation is    *)
(* counted once.                                                           *)
(***************************************************************************)
C21_UnparseableTarget ==
    \A i \in 1..Len(operations) :
        SyncTurn(i) /\ operations[i].before = Garbage =>
            /\ ~operations[i].merged
            /\ operations[i].done
            /\ operations[i].counted = 1
            /\ operations[i].translator = enableTranslation
            /\ operations[i].after =
                   IF /\ enableTranslation
                      /\ aiClientInstance
                      /\ operations[i].kept
                      /\ IsContainer(operations[i].source)
                   THEN Stringify(WholeTreeTranslation(operations[i].source))
                   ELSE Stringify(createEmptyStructure(operations[i].source))

\* a target that did not parse was overwritten with the translation, and the
\* loop went on to the next file of the language
C21_Witness ==
    \E i \in 1..Len(operations) :
        /\ SyncTurn(i)
        /\ operations[i].before = Garbage
        /\ enableTranslation
        /\ aiClientInstance
        /\ operations[i].kept
        /\ operations[i].after # Stringify(createEmptyStructure(operations[i].source))
        /\ i < Len(operations)
        /\ operations[i + 1].lang = operations[i].lang
        /\ operations[i + 1].run = operations[i].run

(***************************************************************************)
(* C22: when in one run the translation of the fragments added to a file   *)
(* failed (the service did not answer) and the file was written, the next  *)
(* run, on the files the first left and with nothing failing, calls the    *)
(* translator for that file again.                                         *)
(***************************************************************************)
C22_RetryByRerun ==
    \A i, j \in 1..Len(operations) :
        /\ SyncTurn(j)
        /\ operations[i].op = "sync"
        /\ operations[i].merged
        /\ operations[i].translator
        /\ ~operations[i].kept
        /\ operations[i].done
        /\ operations[j].run = operations[i].run + 1
        /\ operations[j].lang = operations[i].lang
        /\ operations[j].name = operations[i].name
        => operations[j].translator

\* the names of the .json files of a directory that can be read
JsonFileSet(dir) ==
    IF dir.state # "ok" THEN {}
    ELSE { n \in FileNameSet : IsJsonFile(n) /\ dir.files[n] # Absent }

SeqToSet(s) == { s[i] : i \in 1..Len(s) }

\* the turns of the file loops that followed the call of compareDirectories
\* recorded at place k
TurnsOf(k) ==
    { i \in 1..Len(operations) :
        /\ operations[i].run = compared[k].run
        /\ operations[i].lang = compared[k].lang }

\* the loop body that began with that call has ended, and nothing has
\* touched the language since
Finished(k) ==
    /\ compared[k].run = runNumber
    /\ k < Len(compared) \/ rpc \in { "language", "done" }

\* nothing of the file system failed in that loop body
NoIOError(k) ==
    /\ ~compared[k].threw
    /\ compared[k].target.state # "denied"
    /\ \A i \in TurnsOf(k) : operations[i].io = "ok"

\* the three lists are the differences and the intersection of the two sets
\* of names, and no name is in two of them
IsPartition(k) ==
    LET S == JsonFileSet(dirs[sourceLang])
        T == JsonFileSet(compared[k].target)
    IN  /\ SeqToSet(compared[k].filesToAdd) = S \ T
        /\ SeqToSet(compared[k].filesToDelete) = T \ S
        /\ SeqToSet(compared[k].filesToSync) = S \cap T
        /\ Len(compared[k].filesToAdd) + Len(compared[k].filesToDelete)
               + Len(compared[k].filesToSync) = Cardinality(S \cup T)

(***************************************************************************)
(* C23 as stated: compareDirectories splits the names of the .json files   *)
(* into source minus target, target minus source and the intersection, and *)
(* when the loop body of a language has ended with no I/O error the target *)
(* directory holds the .json files the source directory holds.             *)
(***************************************************************************)
C23_FileSetConvergence_Stated ==
    \A k \in 1..Len(compared) :
        /\ ~compared[k].threw => IsPartition(k)
        /\ Finished(k) /\ NoIOError(k) =>
               JsonFileSet(dirs[compared[k].lang]) = JsonFileSet(dirs[sourceLang])

(***************************************************************************)
(* C23, amended: the same, for a language all of whose added files have a  *)
(* source that parses as JSON (a source file that does not parse is not    *)
(* added).                                                                 *)
(***************************************************************************)
C23_FileSetConvergence ==
    \A k \in 1..Len(compared) :
        /\ ~compared[k].threw => IsPartition(k)
        /\ /\ Finished(k)
           /\ NoIOError(k)
           /\ \A i \in TurnsOf(k) :
                  operations[i].op = "add" => operations[i].source # Garbage
           => JsonFileSet(dirs[compared[k].lang]) = JsonFileSet(dirs[sourceLang])

\* a language that lacked a file of the source and had one of its own has
\* ended its loop body with the files of the source
C23_Witness ==
    \E k \in 1..Len(compared) :
        /\ Finished(k)
        /\ NoIOError(k)
        /\ Len(compared[k].filesToAdd) > 0
        /\ Len(compared[k].filesToDelete) > 0
        /\ JsonFileSet(compared[k].target) # JsonFileSet(dirs[sourceLang])
        /\ JsonFileSet(dirs[compared[k].lang]) = JsonFileSet(dirs[sourceLang])

\* the loop and the file of every turn that followed the call of
\* compareDirectories recorded at place k, in the order of the turns
TurnSeq(k) ==
    LET mine == SelectSeq(operations,
                    LAMBDA o : o.run = compared[k].run /\ o.lang = compared[k].lang)
    IN  [i \in 1..Len(mine) |-> FileOp(mine[i].op, mine[i].name)]

\* In every call of runSync so far, compareDirectories was called for every
\* target language but the source language, and every file of the lists it
\* gave had its turn: the added files, then the deleted, then the synced.
AllAttempted ==
    /\ \A r \in 1..runNumber, l \in SeqToSet(targetLangs) \ { sourceLang } :
           \E k \in 1..Len(compared) :
               compared[k].run = r /\ compared[k].lang = l
    /\ \A k \in 1..Len(compared) :
           ~compared[k].threw =>
               TurnSeq(k) = FileOps("add", compared[k].filesToAdd)
                                \o FileOps("delete", compared[k].filesToDelete)
                                \o FileOps("sync", compared[k].filesToSync)

(***************************************************************************)
(* C25: whatever fails in the turn of one file (a read, the parse of the   *)
(* source, a write, an unlink, the translation), runSync returns, and by   *)
(* then every file of filesToAdd, filesToDelete and filesToSync of every   *)
(* target language has had its turn.                                       *)
(***************************************************************************)
C25_ErrorIsolation == <>[](rpc = "done" /\ AllAttempted)

\* runSync has returned after a turn that failed was followed by a turn of
\* the same language that did its work, and by another language
C25_Witness ==
    /\ rpc = "done"
    /\ \E i, j, m \in 1..Len(operations) :
           /\ i < j
           /\ j < m
           /\ ~operations[i].done
           /\ operations[i].io # "ok" \/ operations[i].source = Garbage
           /\ operations[j].run = operations[i].run
           /\ operations[j].lang = operations[i].lang
           /\ operations[j].done
           /\ operations[m].run = operations[i].run
           /\ operations[m].lang # operations[i].lang


\* a turn of the loop over filesToSync whose two files were read and parsed
MergeTurn(i) ==
    /\ operations[i].op = "sync"
    /\ operations[i].io # "readFails"
    /\ operations[i].source # Garbage
    /\ operations[i].before # Garbage

\* what syncStructure returned in that turn
MergeOf(i) ==
    syncStructure(operations[i].source, operations[i].before, RootPath,
                  <<>>, <<>>)

(***************************************************************************)
(* C26: for a file of filesToSync whose target text parses, runSync writes *)
(* the target file exactly when syncStructure returned changesMade = true  *)
(* (the write is attempted then, and done unless it fails); the fragments  *)
(* are handed to the translator exactly when changesMade is true,          *)
(* translation is enabled and the added list is not empty; and when        *)
(* changesMade is false the file is left as it was and nothing is counted. *)
(***************************************************************************)
C26_WrittenIffChanged ==
    \A i \in 1..Len(operations) :
        MergeTurn(i) =>
            /\ operations[i].merged
            /\ operations[i].done =
                   (MergeOf(i).changesMade /\ operations[i].io = "ok")
            /\ operations[i].io = "writeFails" => MergeOf(i).changesMade
            /\ operations[i].translator =
                   /\ MergeOf(i).changesMade
                   /\ enableTranslation
                   /\ Len(MergeOf(i).added) > 0
            /\ operations[i].counted = IF operations[i].done THEN 1 ELSE 0
            /\ ~MergeOf(i).changesMade =>
                   operations[i].after = operations[i].before

\* one file was merged, translated and written, and another one, already in
\* step with its source, was left alone
C26_Witness ==
    /\ \E i \in 1..Len(operations) :
           /\ MergeTurn(i)
           /\ operations[i].done
           /\ operations[i].translator
           /\ operations[i].after # operations[i].before
    /\ \E i \in 1..Len(operations) :
           /\ MergeTurn(i)
           /\ operations[i].io = "ok"
           /\ ~operations[i].done
           /\ enableTranslation


(***************************************************************************)
(* C27: no step of runSync changes the directory of the source language:   *)
(* none of its files is written, overwritten or deleted, and the directory *)
(* itself stays as it is, whether or not the list of target languages      *)
(* holds the code of the source language.                                  *)
(***************************************************************************)
C27_SourceUntouched == [][dirs'[sourceLang] = dirs[sourceLang]]_vars

\* the source language is among the target languages, and the run has
\* written and overwritten files of another language and is over
C27_Witness ==
    /\ rpc = "done"
    /\ InSeq(targetLangs, sourceLang)
    /\ dirs[sourceLang].state = "ok"
    /\ \E i \in 1..Len(operations) :
           operations[i].done /\ operations[i].op = "add"
    /\ \E i \in 1..Len(operations) :
           operations[i].done /\ operations[i].op = "sync"


\* a merge turn whose added fragments went to a translator that gave
\* nothing: it was not initialised, or every request to the service threw
FailedFragmentTurn(i) ==
    /\ MergeTurn(i)
    /\ operations[i].translator
    /\ operations[i].done
    /\ ~aiClientInstance \/ ~operations[i].kept

(***************************************************************************)
(* C29: when translation is enabled and the translation of the added       *)
(* fragments of a merged file fails (every request throws, or the          *)
(* translator is not initialised), the written target file holds, at the   *)
(* place of every added record, the source subtree with its strings        *)
(* untranslated, not the empty placeholder of the merge.                   *)
(***************************************************************************)
C29_FailedFragmentKeepsSource ==
    \A i \in 1..Len(operations) :
        FailedFragmentTurn(i) =>
            \A j \in 1..Len(MergeOf(i).added) :
                /\ Reaches(operations[i].after, MergeOf(i).added[j].steps)
                /\ Lookup(operations[i].after, MergeOf(i).added[j].steps)
                       = MergeOf(i).added[j].sourceValue


\* nothing of the file system has failed so far, in any run
NoIOErrorSoFar ==
    /\ \A k \in 1..Len(compared) :
           /\ ~compared[k].threw
           /\ ~compared[k].mkdirFailed
           /\ compared[k].target.state # "denied"
    /\ \A i \in 1..Len(operations) : operations[i].io = "ok"

(***************************************************************************)
(* C30: with translation disabled and no I/O error, a run of runSync that  *)
(* follows another one on the same source directory writes no file and     *)
(* deletes no file in any target directory: every turn of its file loops   *)
(* leaves the file as it was and counts nothing, and its operation counts  *)
(* stay zero, whatever the target directories held before the first run.   *)
(***************************************************************************)
C30_SecondRunIdle ==
    ~enableTranslation /\ NoIOErrorSoFar =>
        /\ \A i \in 1..Len(operations) :
               operations[i].run > 1 =>
                   /\ ~operations[i].done
                   /\ operations[i].counted = 0
                   /\ operations[i].op # "delete"
                   /\ operations[i].after = operations[i].before
        /\ runNumber > 1 =>
               langChangesCount = 0 /\ totalChangesCount = 0

\* a first run added, merged and deleted files, and a second run has gone
\* through the same files and is over
C30_Witness ==
    /\ ~enableTranslation
    /\ NoIOErrorSoFar
    /\ runNumber = 2
    /\ rpc = "done"
    /\ \E i \in 1..Len(operations) :
           operations[i].run = 1 /\ operations[i].done
               /\ operations[i].op = "add"
    /\ \E i \in 1..Len(operations) :
           operations[i].run = 1 /\ operations[i].done
               /\ operations[i].op = "sync"
    /\ \E i \in 1..Len(operations) :
           operations[i].run = 1 /\ operations[i].done
               /\ operations[i].op = "delete"
    /\ \E i \in 1..Len(operations) :
           operations[i].run = 2 /\ operations[i].op = "sync"

=============================================================================
